---- MODULE Spec2Model ----
(***************************************************************************)
(* Host-side test harnesses of the fixed-point inference accelerator:      *)
(* the image upload, the Digit (0xCC) and Scores (0xCD) reads, the         *)
(* classification of every sample and the counters and records of a run.   *)
(* The device and the serial line are the environment of the host code.    *)
(***************************************************************************)
EXTENDS Integers, Sequences, FiniteSets, TLC

VARIABLES
    prog,            \* which script runs
    test_samples,    \* number of samples of the run
    i,               \* loop index of the sample in progress
    pc,              \* position of the host in its script
    exc,             \* exception that ended the run, "none" otherwise
    image,           \* int8 pixel vector of the sample in progress
    sent,            \* offset of the chunk loop of an upload
    txlog,           \* bytes written to the device for the sample in progress
    delayed,         \* the fixed delay after the end marker has elapsed
    reads_done,      \* reads that returned for the sample in progress
    rx,              \* input buffer of the serial port
    resp,            \* what the last read returned
    python_scores,   \* reference scores of the sample in progress
    fpga_scores,     \* decoded device scores, <<>> for None
    fpga_pred,       \* digit decoded from the Digit read, -1 before
    match_count, mismatch_count, error_count,
    correct_matches,
    pass_count, fail_count,
    records,         \* per-sample blocks written to the report
    elapsed,         \* milliseconds spent in the polling loop of send_image
    rc,              \* return code of a sender script, -1 while it runs
    dev_busy,        \* the device is computing
    dev_img,         \* index of the image the device holds
    dev_reg,         \* score register of the device
    dev_req,         \* read requests the device has not answered
    chunks,          \* send_weights: the four blobs read from the files
    all_data,        \* send_weights: the frame to transmit
    total_packet_size,
    bytes_sent,      \* send_weights: bytes written so far
    fn,              \* the function applied to a value, "none" in a run
    arg,             \* its argument
    out              \* its result, "pending" before it is applied

hostVars == <<prog, test_samples, i, pc, exc, image, sent, txlog, delayed,
              reads_done, rx, resp, python_scores, fpga_scores, fpga_pred,
              match_count, mismatch_count, error_count, correct_matches,
              pass_count, fail_count, records, elapsed, rc>>
devVars == <<dev_busy, dev_img, dev_reg, dev_req>>
toolVars == <<chunks, all_data, total_packet_size, bytes_sent, fn, arg, out>>
vars == <<hostVars, devVars, toolVars>>

----------------------------------------------------------------------------
(* Bounds of the model *)

MaxSamples == 2
(* the same count for the runs checked for termination *)
MaxLiveSamples == 1
MaxPattern == 2
ShortLen == 30

(* Constants of the program *)

ImgSize == 784
ChunkSize == 64
ScoresLen == 40
NumClasses == 10
ResponseTimeoutMs == 1000
PollSleepMs == 10

IMG_START_MARKER == <<187, 102>>
IMG_END_MARKER == <<102, 187>>
DIGIT_READ_REQUEST == <<204>>
SCORES_READ_REQUEST == <<205>>

INT32_MAX == 2147483647
INT32_MIN == -2147483647 - 1

----------------------------------------------------------------------------
(* The scripts *)

CmpProgs == {"ukryte_cmp", "regresja_cmp"}
HarnessProgs == CmpProgs \cup {"cnn_cmp", "validated"}
SenderProgs == {"send_image", "cnn_send"}
Progs == HarnessProgs \cup SenderProgs

Min(a, b) == IF a <= b THEN a ELSE b

Take(s, n) == SubSeq(s, 1, Min(n, Len(s)))
Drop(s, n) == SubSeq(s, Min(n, Len(s)) + 1, Len(s))

(* int8 array viewed as bytes, and back *)
ToByte(v) == v % 256
FromByte(b) == IF b >= 128 THEN b - 256 ELSE b
tobytes(x) == [p \in 1..Len(x) |-> ToByte(x[p])]

(* data[lo:hi] of Python: positions lo..hi-1, cut at the end of data *)
SliceShort(data, lo, hi) == SubSeq(data, lo + 1, Min(hi, Len(data)) - 1)
Slice(data, lo, hi) == SubSeq(data, lo + 1, Min(hi, Len(data)))

(* the chunk written by one pass of the upload loop, and the next offset *)
ChunkEnd(p, data, off) ==
    IF p \in {"cnn_cmp", "cnn_send"} THEN off + ChunkSize
    ELSE IF p = "send_image" THEN Min(off + ChunkSize, Len(data))
    ELSE Len(data)
Chunk(p, data, off) == Slice(data, off, ChunkEnd(p, data, off))

(* the preprocessed test images: pixel p of image s *)
Pattern(s) == [p \in 1..ImgSize |-> ((p * (2 * s + 3) + 41 * s) % 256) - 128]

----------------------------------------------------------------------------
(* 32-bit arithmetic of the numpy int32 arrays. TLC's integers are 32 bits *)
(* wide themselves, so a wrapping difference is computed by cases.         *)

SameSign(a, b) == (a >= 0) = (b >= 0)

(* a - b reduced modulo 2^32 into [-2^31, 2^31 - 1] *)
Sub32(a, b) ==
    IF SameSign(a, b) THEN a - b
    ELSE IF a >= 0
         THEN IF a - INT32_MAX > b THEN (a - INT32_MAX - 1) + (INT32_MIN - b)
              ELSE a - b
         ELSE IF a - INT32_MIN < b THEN (a - INT32_MIN) + (INT32_MAX - b) + 1
              ELSE a - b

(* np.abs on int32: the most negative value stays as it is *)
Abs32(x) == IF x = INT32_MIN THEN INT32_MIN ELSE IF x < 0 THEN -x ELSE x

RECURSIVE MaxOf(_)
MaxOf(s) == IF Len(s) = 1 THEN s[1]
            ELSE LET m == MaxOf(Tail(s)) IN IF s[1] >= m THEN s[1] ELSE m

(* np.argmax: the first index (from 0) holding the maximum *)
argmax_last(s) == (CHOOSE c \in 1..Len(s) :
                      /\ s[c] = MaxOf(s)
                      /\ \A d \in (c + 1)..Len(s) : s[d] # s[c]) - 1
argmax(s) == (CHOOSE c \in 1..Len(s) :
                 /\ s[c] = MaxOf(s)
                 /\ \A d \in 1..(c - 1) : s[d] # s[c]) - 1

array_equal(a, b) == Len(a) = Len(b) /\ \A c \in 1..Len(a) : a[c] = b[c]

(* np.max(np.abs(a - b)) on two int32 arrays *)
MaxAbsDiff(a, b) == MaxOf([c \in 1..Len(a) |-> Abs32(Sub32(a[c], b[c]))])

(* struct.unpack('<10i', resp): ten little-endian signed 32-bit values *)
LE32(b0, b1, b2, b3) ==
    b0 + 256 * b1 + 65536 * b2 + 16777216 * (IF b3 >= 128 THEN b3 - 256 ELSE b3)
unpack10i(bytes) ==
    [c \in 1..NumClasses |->
        LE32(bytes[4 * c - 3], bytes[4 * c - 2], bytes[4 * c - 1], bytes[4 * c])]

(* the byte values of a read's result *)
Vals(r) == [q \in 1..Len(r) |-> r[q].b]

----------------------------------------------------------------------------
(* The reference engine's scores for test image k *)
RefScores(k) ==
    [c \in 1..NumClasses |-> ((c * (k + 3)) % 7) * 1000 - 2500 - c + 40 * k]

----------------------------------------------------------------------------
(* The device and the line: the environment of the host                    *)

DevFaults == {"exact", "off"}
DevHighNibbles == {0, 3}

DevResult(k, f) ==
    [c \in 1..NumClasses |->
        IF f = "off" /\ c = 4 THEN RefScores(k)[c] + 1 ELSE RefScores(k)[c]]

DevRegInit == [img |-> -1, scores |-> [c \in 1..NumClasses |-> 0]]

(* 10 x int32 little-endian, class-index order; every byte carries the     *)
(* image its score belongs to and the sample whose request it answers      *)
EncodeScores(reg, k) ==
    [q \in 1..ScoresLen |->
        [b   |-> (reg.scores[((q - 1) \div 4) + 1] \div (256 ^ ((q - 1) % 4))) % 256,
         img |-> reg.img,
         req |-> k]]

DigitByte(reg, k, hn) ==
    [b |-> argmax(reg.scores) + 16 * hn, img |-> reg.img, req |-> k]

(* the end marker completes a frame: the device starts on image k *)
DevLoadImage(k) == dev_busy' = TRUE /\ dev_img' = k

DevInferenceDone ==
    /\ dev_busy
    /\ \E f \in DevFaults :
         dev_reg' = [img |-> dev_img, scores |-> DevResult(dev_img, f)]
    /\ dev_busy' = FALSE
    /\ UNCHANGED <<dev_img, dev_req>>
    /\ UNCHANGED <<prog, test_samples, i, pc, exc, image, sent, txlog, delayed,
                   reads_done, rx, resp, python_scores, fpga_scores, fpga_pred,
                   match_count, mismatch_count, error_count, correct_matches,
                   pass_count, fail_count, records, elapsed, rc>>
    /\ UNCHANGED toolVars

DevRespond ==
    /\ dev_req # <<>>
    /\ LET r == Head(dev_req) IN
         IF r.kind = "CD"
         THEN \E n \in {ShortLen, ScoresLen} :
                 rx' = rx \o Take(EncodeScores(dev_reg, r.sample), n)
         ELSE \E hn \in DevHighNibbles :
                 rx' = Append(rx, DigitByte(dev_reg, r.sample, hn))
    /\ dev_req' = Tail(dev_req)
    /\ UNCHANGED <<dev_busy, dev_img, dev_reg>>
    /\ UNCHANGED <<prog, test_samples, i, pc, exc, image, sent, txlog, delayed,
                   reads_done, resp, python_scores, fpga_scores, fpga_pred,
                   match_count, mismatch_count, error_count, correct_matches,
                   pass_count, fail_count, records, elapsed, rc>>
    /\ UNCHANGED toolVars

----------------------------------------------------------------------------
(* pyserial: ser = serial.Serial(port, baud, timeout=...) makes read(n)    *)
(* return after the timeout with the bytes that arrived, fewer than n      *)
(* when the device sent fewer.                                             *)

ReadCanReturnBlocking(buf, n) == Len(buf) >= n
ReadCanReturn(buf, n) == TRUE

----------------------------------------------------------------------------
(* The host: one sample of a run *)

hostRest == <<match_count, mismatch_count, error_count, correct_matches,
              pass_count, fail_count, records>>

(* for i in range(test_samples): the per-sample values are set up *)
LoopHead ==
    /\ pc = "loop"
    /\ i < test_samples
    /\ image' = Pattern(i)
    /\ python_scores' = RefScores(i)
    /\ rx' = IF prog = "cnn_cmp" THEN <<>> ELSE rx
    /\ txlog' = <<>>
    /\ sent' = 0
    /\ delayed' = FALSE
    /\ reads_done' = 0
    /\ resp' = <<>>
    /\ fpga_scores' = <<>>
    /\ fpga_pred' = -1
    /\ pc' = "send_start"
    /\ UNCHANGED <<prog, test_samples, i, exc, elapsed, rc>>
    /\ UNCHANGED hostRest
    /\ UNCHANGED devVars
    /\ UNCHANGED toolVars

LoopExit ==
    /\ pc = "loop"
    /\ i >= test_samples
    /\ pc' = "summary"
    /\ UNCHANGED <<prog, test_samples, i, exc, image, sent, txlog, delayed,
                   reads_done, rx, resp, python_scores, fpga_scores, fpga_pred,
                   elapsed, rc>>
    /\ UNCHANGED hostRest
    /\ UNCHANGED devVars
    /\ UNCHANGED toolVars

(* ser.write(IMG_START_MARKER) *)
SendStart ==
    /\ pc = "send_start"
    /\ txlog' = txlog \o IMG_START_MARKER
    /\ sent' = 0
    /\ delayed' = FALSE
    /\ pc' = "send_data"
    /\ UNCHANGED <<prog, test_samples, i, exc, image, reads_done, rx,
                   resp, python_scores, fpga_scores, fpga_pred, elapsed, rc>>
    /\ UNCHANGED hostRest
    /\ UNCHANGED devVars
    /\ UNCHANGED toolVars

(* one ser.write of pixel bytes: the whole image, or one chunk of the loop *)
SendChunk ==
    /\ pc = "send_data"
    /\ LET data == tobytes(image) IN
         /\ txlog' = txlog \o Chunk(prog, data, sent)
         /\ sent' = ChunkEnd(prog, data, sent)
         /\ pc' = IF sent' < Len(data) THEN "send_data" ELSE "send_end"
    /\ delayed' = FALSE
    /\ UNCHANGED <<prog, test_samples, i, exc, image, reads_done, rx,
                   resp, python_scores, fpga_scores, fpga_pred, elapsed, rc>>
    /\ UNCHANGED hostRest
    /\ UNCHANGED devVars
    /\ UNCHANGED toolVars

(* what follows the end marker: the delay, or the end of cnn/utils/send_image *)
AfterEndNoDelay(p) == IF p = "cnn_send" THEN "done"
                      ELSE IF p \in {"validated", "send_image"} THEN "request_digit"
                      ELSE "request_scores"
AfterEnd(p) == IF p = "cnn_send" THEN "done" ELSE "wait"

(* ser.write(IMG_END_MARKER); the frame is complete on the device's side *)
SendEnd ==
    /\ pc = "send_end"
    /\ txlog' = txlog \o IMG_END_MARKER
    /\ DevLoadImage(i)
    /\ delayed' = FALSE
    /\ pc' = AfterEnd(prog)
    /\ rc' = IF prog = "cnn_send" THEN 0 ELSE rc
    /\ UNCHANGED <<prog, test_samples, i, exc, image, sent, reads_done,
                   rx, resp, python_scores, fpga_scores, fpga_pred, elapsed>>
    /\ UNCHANGED hostRest
    /\ UNCHANGED <<dev_reg, dev_req>>
    /\ UNCHANGED toolVars

(* where the script goes after the delay *)
AfterWait(p) == IF p \in {"validated", "send_image"} THEN "request_digit"
                ELSE "request_scores"

WaitForReady ==
    /\ pc = "wait"
    /\ ~dev_busy
    /\ delayed' = TRUE
    /\ pc' = AfterWait(prog)
    /\ UNCHANGED <<prog, test_samples, i, exc, image, sent, txlog, reads_done,
                   rx, resp, python_scores, fpga_scores, fpga_pred, elapsed, rc>>
    /\ UNCHANGED hostRest
    /\ UNCHANGED devVars
    /\ UNCHANGED toolVars

(* time.sleep(...): the fixed delay, whatever the device is doing *)
Wait ==
    /\ pc = "wait"
    /\ delayed' = TRUE
    /\ pc' = AfterWait(prog)
    /\ UNCHANGED <<prog, test_samples, i, exc, image, sent, txlog, reads_done,
                   rx, resp, python_scores, fpga_scores, fpga_pred, elapsed, rc>>
    /\ UNCHANGED hostRest
    /\ UNCHANGED devVars
    /\ UNCHANGED toolVars

(* the Digit request is followed by its read (send_image polls first) *)
AfterDigitRequestNoRead(p) == IF p = "send_image" THEN "poll" ELSE "request_scores"
AfterDigitRequest(p) == IF p = "send_image" THEN "poll" ELSE "await_digit"

(* ser.reset_input_buffer(); ser.write(DIGIT_READ_REQUEST) *)
WriteDigitRequest ==
    /\ pc = "request_digit"
    /\ rx' = <<>>
    /\ txlog' = txlog \o DIGIT_READ_REQUEST
    /\ dev_req' = Append(dev_req, [kind |-> "CC", sample |-> i])
    /\ elapsed' = 0
    /\ pc' = AfterDigitRequest(prog)
    /\ UNCHANGED <<prog, test_samples, i, exc, image, sent, delayed, reads_done,
                   resp, python_scores, fpga_scores, fpga_pred, rc>>
    /\ UNCHANGED hostRest
    /\ UNCHANGED <<dev_busy, dev_img, dev_reg>>
    /\ UNCHANGED toolVars

(* while ser.in_waiting == 0: give up after response_timeout, else sleep *)
Poll ==
    /\ pc = "poll"
    /\ IF Len(rx) = 0
       THEN IF elapsed > ResponseTimeoutMs
            THEN pc' = "done" /\ rc' = 1 /\ elapsed' = elapsed
            ELSE pc' = "poll" /\ rc' = rc /\ elapsed' = elapsed + PollSleepMs
       ELSE pc' = "await_digit" /\ rc' = rc /\ elapsed' = elapsed
    /\ UNCHANGED <<prog, test_samples, i, exc, image, sent, txlog, delayed,
                   reads_done, rx, resp, python_scores, fpga_scores, fpga_pred>>
    /\ UNCHANGED hostRest
    /\ UNCHANGED devVars
    /\ UNCHANGED toolVars

(* resp = ser.read(1) and what each script does with it *)
ReadDigit ==
    /\ pc = "await_digit"
    /\ ReadCanReturn(rx, 1)
    /\ resp' = Take(rx, 1)
    /\ rx' = Drop(rx, 1)
    /\ reads_done' = reads_done + 1
    /\ fpga_pred' = IF Len(resp') = 1 THEN resp'[1].b % 16 ELSE fpga_pred
    /\ IF prog = "send_image"
       THEN /\ pc' = "done"
            /\ rc' = IF Len(resp') = 1 THEN 0 ELSE 1
            /\ UNCHANGED <<i, fail_count>>
       ELSE /\ rc' = rc
            /\ IF Len(resp') = 1
               THEN pc' = "wait2" /\ UNCHANGED <<i, fail_count>>
               ELSE pc' = "loop" /\ i' = i + 1 /\ fail_count' = fail_count + 1
    /\ UNCHANGED <<prog, test_samples, exc, image, sent, txlog, delayed,
                   python_scores, fpga_scores, elapsed>>
    /\ UNCHANGED <<match_count, mismatch_count, error_count, correct_matches,
                   pass_count, records>>
    /\ UNCHANGED devVars
    /\ UNCHANGED toolVars

(* time.sleep(0.01) between the two requests *)
Wait2 ==
    /\ pc = "wait2"
    /\ pc' = "request_scores"
    /\ UNCHANGED <<prog, test_samples, i, exc, image, sent, txlog, delayed,
                   reads_done, rx, resp, python_scores, fpga_scores, fpga_pred,
                   elapsed, rc>>
    /\ UNCHANGED hostRest
    /\ UNCHANGED devVars
    /\ UNCHANGED toolVars

(* read_scores_from_fpga resets the input buffer before its request; the   *)
(* CNN harness writes the request without a reset                          *)
ResetsBeforeScores(p) == p # "cnn_cmp"

WriteScoresRequest ==
    /\ pc = "request_scores"
    /\ rx' = IF ResetsBeforeScores(prog) THEN <<>> ELSE rx
    /\ txlog' = txlog \o SCORES_READ_REQUEST
    /\ dev_req' = Append(dev_req, [kind |-> "CD", sample |-> i])
    /\ pc' = "await_scores"
    /\ UNCHANGED <<prog, test_samples, i, exc, image, sent, delayed, reads_done,
                   resp, python_scores, fpga_scores, fpga_pred, elapsed, rc>>
    /\ UNCHANGED hostRest
    /\ UNCHANGED <<dev_busy, dev_img, dev_reg>>
    /\ UNCHANGED toolVars

(* resp = ser.read(40); None unless 40 bytes came, else the unpacked array *)
ScoresOfPadded(r) ==
    IF Len(r) = 0 THEN <<>>
    ELSE unpack10i(Vals(r) \o [q \in 1..(ScoresLen - Len(r)) |-> 0])
ScoresOf(r) == IF Len(r) # ScoresLen THEN <<>> ELSE unpack10i(Vals(r))

ReadScores ==
    /\ pc = "await_scores"
    /\ ReadCanReturn(rx, ScoresLen)
    /\ resp' = Take(rx, ScoresLen)
    /\ rx' = Drop(rx, ScoresLen)
    /\ reads_done' = reads_done + 1
    /\ fpga_scores' = ScoresOf(resp')
    /\ pc' = "classify"
    /\ UNCHANGED <<prog, test_samples, i, exc, image, sent, txlog, delayed,
                   python_scores, fpga_pred, elapsed, rc>>
    /\ UNCHANGED hostRest
    /\ UNCHANGED devVars
    /\ UNCHANGED toolVars

----------------------------------------------------------------------------
(* Classification of a sample *)

(* run_comparison: Error without scores, Match on equal arrays *)
StatusSkip(ref, dev) ==
    IF dev = <<>> THEN "Skipped"
    ELSE IF array_equal(ref, dev) THEN "Match" ELSE "Mismatch"
Status(ref, dev) ==
    IF dev = <<>> THEN "Error"
    ELSE IF array_equal(ref, dev) THEN "Match" ELSE "Mismatch"

(* the block written to the report for sample k *)
Record(k, ref, dev) ==
    [idx |-> k,
     status |-> Status(ref, dev),
     max_diff |-> IF Status(ref, dev) = "Mismatch" THEN MaxAbsDiff(ref, dev) ELSE 0]

ClassifyCmp ==
    /\ pc = "classify"
    /\ prog \in CmpProgs
    /\ records' = Append(records, Record(i, python_scores, fpga_scores))
    /\ LET st == Status(python_scores, fpga_scores) IN
         /\ error_count' = IF st = "Error" THEN error_count + 1 ELSE error_count
         /\ match_count' = IF st = "Match" THEN match_count + 1 ELSE match_count
         /\ mismatch_count' =
                IF st = "Mismatch" THEN mismatch_count + 1 ELSE mismatch_count
    /\ i' = i + 1
    /\ pc' = "loop"
    /\ UNCHANGED <<prog, test_samples, exc, image, sent, txlog, delayed,
                   reads_done, rx, resp, python_scores, fpga_scores, fpga_pred,
                   elapsed, rc>>
    /\ UNCHANGED <<correct_matches, pass_count, fail_count>>
    /\ UNCHANGED devVars
    /\ UNCHANGED toolVars

(* CNN harness: a response that is not 40 bytes long is skipped (continue) *)
CnnStatus(expected, dev) ==
    IF array_equal(expected, dev) /\ argmax(expected) = argmax(dev)
    THEN "Match" ELSE "Mismatch"

CnnRecord(k, expected, dev) ==
    [idx |-> k,
     status |-> CnnStatus(expected, dev),
     max_diff |-> IF CnnStatus(expected, dev) = "Mismatch"
                  THEN MaxAbsDiff(dev, expected) ELSE 0]

ClassifyCnn ==
    /\ pc = "classify"
    /\ prog = "cnn_cmp"
    /\ IF fpga_scores = <<>>
       THEN UNCHANGED <<records, correct_matches>>
       ELSE /\ records' = Append(records, CnnRecord(i, python_scores, fpga_scores))
            /\ correct_matches' =
                 IF array_equal(python_scores, fpga_scores)
                 THEN correct_matches + 1 ELSE correct_matches
    /\ i' = i + 1
    /\ pc' = "loop"
    /\ UNCHANGED <<prog, test_samples, exc, image, sent, txlog, delayed,
                   reads_done, rx, resp, python_scores, fpga_scores, fpga_pred,
                   elapsed, rc>>
    /\ UNCHANGED <<match_count, mismatch_count, error_count, pass_count, fail_count>>
    /\ UNCHANGED devVars
    /\ UNCHANGED toolVars

(* run_validated_test_with_scores: PASS when the scores and the digit agree *)
Passes(ref, dev, pred) == array_equal(dev, ref) /\ pred = argmax(ref)

ClassifyValidated ==
    /\ pc = "classify"
    /\ prog = "validated"
    /\ IF fpga_scores # <<>> /\ Passes(python_scores, fpga_scores, fpga_pred)
       THEN pass_count' = pass_count + 1 /\ fail_count' = fail_count
       ELSE pass_count' = pass_count /\ fail_count' = fail_count + 1
    /\ i' = i + 1
    /\ pc' = "loop"
    /\ UNCHANGED <<prog, test_samples, exc, image, sent, txlog, delayed,
                   reads_done, rx, resp, python_scores, fpga_scores, fpga_pred,
                   elapsed, rc>>
    /\ UNCHANGED <<match_count, mismatch_count, error_count, correct_matches,
                   records>>
    /\ UNCHANGED devVars
    /\ UNCHANGED toolVars

(* the summary divides by the number of samples in two of the scripts *)
DividesBySamples(p) == p \in {"ukryte_cmp", "validated"}

Summary ==
    /\ pc = "summary"
    /\ IF DividesBySamples(prog) /\ test_samples = 0
       THEN pc' = "raised" /\ exc' = "ZeroDivisionError"
       ELSE pc' = "done" /\ exc' = exc
    /\ UNCHANGED <<prog, test_samples, i, image, sent, txlog, delayed,
                   reads_done, rx, resp, python_scores, fpga_scores, fpga_pred,
                   elapsed, rc>>
    /\ UNCHANGED hostRest
    /\ UNCHANGED devVars
    /\ UNCHANGED toolVars

(* a serial write or read raises SerialException: no handler inside any    *)
(* loop; the sender scripts and the validated test catch it around the     *)
(* whole run, the comparison harnesses not at all                          *)
IoPcs == {"send_start", "send_data", "send_end", "request_digit",
          "request_scores", "await_digit", "await_scores", "poll"}

ConnFail ==
    /\ pc \in IoPcs
    /\ exc' = "SerialException"
    /\ pc' = IF prog \in SenderProgs THEN "done" ELSE "raised"
    /\ rc' = IF prog \in SenderProgs THEN 1 ELSE rc
    /\ UNCHANGED <<prog, test_samples, i, image, sent, txlog, delayed,
                   reads_done, rx, resp, python_scores, fpga_scores, fpga_pred,
                   elapsed>>
    /\ UNCHANGED hostRest
    /\ UNCHANGED devVars
    /\ UNCHANGED toolVars

----------------------------------------------------------------------------
(* Specifications *)

NoScores == <<>>

InitCommon ==
    /\ i = 0
    /\ exc = "none"
    /\ sent = 0
    /\ txlog = <<>>
    /\ delayed = FALSE
    /\ reads_done = 0
    /\ rx = <<>>
    /\ resp = <<>>
    /\ fpga_pred = -1
    /\ match_count = 0 /\ mismatch_count = 0 /\ error_count = 0
    /\ correct_matches = 0
    /\ pass_count = 0 /\ fail_count = 0
    /\ records = <<>>
    /\ elapsed = 0
    /\ rc = -1
    /\ dev_busy = FALSE
    /\ dev_img = -1
    /\ dev_reg = DevRegInit
    /\ dev_req = <<>>

(* no weights are sent and no function is under study in a harness run *)
ToolIdle ==
    /\ chunks = <<>>
    /\ all_data = <<>>
    /\ total_packet_size = 0
    /\ bytes_sent = 0
    /\ fn = "none"
    /\ arg = <<>>
    /\ out = <<>>

(* the number of samples: --samples for the scripts that take it, a fixed  *)
(* count in the CNN harness, one image for a sender                        *)
SamplesOf(p) == IF p \in SenderProgs THEN {1}
                ELSE IF p = "cnn_cmp" THEN {MaxSamples}
                ELSE 0..MaxSamples

Init ==
    /\ prog \in Progs
    /\ test_samples \in SamplesOf(prog)
    /\ pc = IF prog \in SenderProgs THEN "send_start" ELSE "loop"
    /\ image \in IF prog \in SenderProgs
                 THEN {Pattern(s) : s \in 0..MaxPattern} ELSE {<<>>}
    /\ python_scores = NoScores
    /\ fpga_scores = NoScores
    /\ InitCommon
    /\ ToolIdle

HostNext ==
    \/ LoopHead
    \/ LoopExit
    \/ SendStart
    \/ SendChunk
    \/ SendEnd
    \/ Wait
    \/ WriteDigitRequest
    \/ Poll
    \/ ReadDigit
    \/ Wait2
    \/ WriteScoresRequest
    \/ ReadScores
    \/ ClassifyCmp
    \/ ClassifyCnn
    \/ ClassifyValidated
    \/ Summary

DevNext ==
    \/ DevInferenceDone
    \/ DevRespond

Next == HostNext \/ DevNext \/ ConnFail

Spec == Init /\ [][Next]_vars

(* The line stays up; the host's steps are taken (its code runs on, and a  *)
(* read's timeout expires); the device may answer late, in part or never.  *)
LiveNext == HostNext \/ DevNext

LiveSamplesOf(p) == IF p \in SenderProgs THEN {1}
                    ELSE IF p = "cnn_cmp" THEN {MaxLiveSamples}
                    ELSE 0..MaxLiveSamples

LiveInit ==
    /\ prog \in Progs
    /\ test_samples \in LiveSamplesOf(prog)
    /\ pc = IF prog \in SenderProgs THEN "send_start" ELSE "loop"
    /\ image \in IF prog \in SenderProgs
                 THEN {Pattern(s) : s \in 0..MaxPattern} ELSE {<<>>}
    /\ python_scores = NoScores
    /\ fpga_scores = NoScores
    /\ InitCommon
    /\ ToolIdle

LiveSpec == LiveInit /\ [][LiveNext]_vars /\ WF_vars(HostNext)

(* The classification alone, on score vectors with values at the ends of   *)
(* the int32 range.                                                        *)
ScoreVals == {INT32_MIN, -1, 0, 1, INT32_MAX}

ScoreVec(x, y) ==
    [c \in 1..NumClasses |-> IF c = 1 THEN x ELSE IF c = NumClasses THEN y ELSE 0]

ScoreVecs == {ScoreVec(x, y) : x, y \in ScoreVals}

InitClassify ==
    /\ prog \in HarnessProgs
    /\ test_samples = 1
    /\ pc = "classify"
    /\ image = Pattern(0)
    /\ python_scores \in ScoreVecs
    /\ fpga_scores \in ScoreVecs \cup {NoScores}
    /\ InitCommon
    /\ ToolIdle

ClassifyNext == ClassifyCmp \/ ClassifyCnn \/ ClassifyValidated

SpecClassify == InitClassify /\ [][ClassifyNext]_vars

----------------------------------------------------------------------------
(* cnn/utils/send_weights.py: the four weight files sent as one frame *)

MaxBlob == 2

START_MARKER == <<170, 85>>
END_MARKER == <<85, 170>>

(* the content of a weight file: n bytes that tell the file and the place *)
Blob(tag, n) == [p \in 1..n |-> (tag * 61 + p * 7) % 256]
BlobLens == {31 * k : k \in 0..MaxBlob}
WeightFiles ==
    {[conv_w |-> Blob(1, a), conv_b |-> Blob(2, b),
      dense_w |-> Blob(3, c), dense_b |-> Blob(4, d)] :
        a \in BlobLens, b \in BlobLens, c \in BlobLens, d \in BlobLens}

(* data_chunks as load_files appends them *)
load_files(files) == <<files.conv_w, files.conv_b, files.dense_w, files.dense_b>>

(* np.concatenate([START_MARKER] + chunks + [END_MARKER]) *)
PacketBiasesFirst(c) == START_MARKER \o c[2] \o c[1] \o c[4] \o c[3] \o END_MARKER
Packet(c) == START_MARKER \o c[1] \o c[2] \o c[3] \o c[4] \o END_MARKER

WeightsRest == <<test_samples, image, sent, delayed, reads_done, rx, resp,
                 python_scores, fpga_scores, fpga_pred, elapsed, fn, out>>

WeightsLoad ==
    /\ prog = "send_weights" /\ pc = "w_load"
    /\ chunks' = load_files(arg)
    /\ pc' = "w_concat"
    /\ UNCHANGED <<prog, i, exc, txlog, rc, all_data, total_packet_size,
                   bytes_sent, arg>>
    /\ UNCHANGED <<WeightsRest, hostRest, devVars>>

WeightsConcat ==
    /\ prog = "send_weights" /\ pc = "w_concat"
    /\ all_data' = Packet(chunks)
    /\ total_packet_size' = Len(all_data')
    /\ pc' = "w_open"
    /\ UNCHANGED <<prog, i, exc, txlog, rc, chunks, bytes_sent, arg>>
    /\ UNCHANGED <<WeightsRest, hostRest, devVars>>

(* serial.Serial(...) succeeds: the loop starts at offset 0 *)
WeightsOpen ==
    /\ prog = "send_weights" /\ pc = "w_open"
    /\ i' = 0
    /\ bytes_sent' = 0
    /\ pc' = "w_send"
    /\ UNCHANGED <<prog, exc, txlog, rc, chunks, all_data, total_packet_size, arg>>
    /\ UNCHANGED <<WeightsRest, hostRest, devVars>>

(* serial.Serial(...) raises SerialException: caught, return 1 *)
WeightsOpenFail ==
    /\ prog = "send_weights" /\ pc = "w_open"
    /\ rc' = 1
    /\ pc' = "done"
    /\ UNCHANGED <<prog, i, exc, txlog, chunks, all_data, total_packet_size,
                   bytes_sent, arg>>
    /\ UNCHANGED <<WeightsRest, hostRest, devVars>>

(* one pass of for i in range(0, len(raw_bytes), CHUNK_SIZE) *)
WeightsSendChunk ==
    /\ prog = "send_weights" /\ pc = "w_send"
    /\ i < Len(all_data)
    /\ LET chunk == Slice(all_data, i, i + ChunkSize) IN
         /\ txlog' = txlog \o chunk
         /\ bytes_sent' = bytes_sent + Len(chunk)
    /\ i' = i + ChunkSize
    /\ UNCHANGED <<prog, pc, exc, rc, chunks, all_data, total_packet_size, arg>>
    /\ UNCHANGED <<WeightsRest, hostRest, devVars>>

(* the range is exhausted: ser.close(), return 0 *)
WeightsDone ==
    /\ prog = "send_weights" /\ pc = "w_send"
    /\ i >= Len(all_data)
    /\ rc' = 0
    /\ pc' = "done"
    /\ UNCHANGED <<prog, i, exc, txlog, chunks, all_data, total_packet_size,
                   bytes_sent, arg>>
    /\ UNCHANGED <<WeightsRest, hostRest, devVars>>

(* ser.write raises inside the loop, where nothing catches it *)
WeightsWriteFail ==
    /\ prog = "send_weights" /\ pc = "w_send"
    /\ i < Len(all_data)
    /\ exc' = "SerialException"
    /\ pc' = "raised"
    /\ UNCHANGED <<prog, i, txlog, rc, chunks, all_data, total_packet_size,
                   bytes_sent, arg>>
    /\ UNCHANGED <<WeightsRest, hostRest, devVars>>

InitWeights ==
    /\ prog = "send_weights"
    /\ test_samples = 0
    /\ pc = "w_load"
    /\ image = <<>>
    /\ python_scores = NoScores
    /\ fpga_scores = NoScores
    /\ InitCommon
    /\ chunks = <<>>
    /\ all_data = <<>>
    /\ total_packet_size = 0
    /\ bytes_sent = 0
    /\ fn = "none"
    /\ arg \in WeightFiles
    /\ out = <<>>

WeightsNext ==
    \/ WeightsLoad
    \/ WeightsConcat
    \/ WeightsOpen
    \/ WeightsOpenFail
    \/ WeightsSendChunk
    \/ WeightsDone
    \/ WeightsWriteFail

SpecWeights == InitWeights /\ [][WeightsNext]_vars

----------------------------------------------------------------------------
(* Functions of the scripts studied on their own: fn is applied to arg at  *)
(* pc = "call" and its result is in out at pc = "return".                  *)

MaxFill == 2

BYTES_PER_SCORE == 4

FnRest == <<prog, test_samples, i, exc, image, sent, txlog, delayed, reads_done,
            rx, resp, python_scores, fpga_scores, fpga_pred, elapsed, rc,
            chunks, all_data, total_packet_size, bytes_sent, fn, arg>>

(* out' = v, and the call returns *)
Return(name, v) ==
    /\ fn = name /\ pc = "call"
    /\ out' = v
    /\ pc' = "return"
    /\ UNCHANGED <<FnRest, hostRest, devVars>>

(* 2_ukryte/utils/read_scores.py: struct.unpack('<i', score_bytes)[0] *)
unpack_i_big(sb) ==
    ((((IF sb[1] >= 128 THEN sb[1] - 256 ELSE sb[1]) * 256 + sb[2]) * 256)
        + sb[3]) * 256 + sb[4]
unpack_i(sb) ==
    ((((IF sb[4] >= 128 THEN sb[4] - 256 ELSE sb[4]) * 256 + sb[3]) * 256)
        + sb[2]) * 256 + sb[1]

(* the for loop of read_scores_from_fpga over the 10 scores *)
read_scores_loop(response) ==
    [c \in 1..NumClasses |->
        LET offset == (c - 1) * BYTES_PER_SCORE IN
        unpack_i(Slice(response, offset, offset + BYTES_PER_SCORE))]

(* 40-byte responses: the bytes of class 0 and class 9 from the corner     *)
(* cases, the classes between filled with bytes that differ by place       *)
ScoreBytes == {<<0, 0, 0, 0>>, <<255, 255, 255, 255>>, <<0, 0, 0, 128>>,
               <<255, 255, 255, 127>>, <<1, 2, 3, 4>>, <<120, 86, 52, 146>>}
FillBytes(c, k) == <<(c + k) % 256, (16 * c + 3 * k) % 256,
                     (c * k + 7) % 256, (128 + c + 70 * k) % 256>>
RECURSIVE FillFrom(_, _)
FillFrom(c, k) == IF c > NumClasses - 2 THEN <<>>
                  ELSE FillBytes(c, k) \o FillFrom(c + 1, k)
Responses == {q1 \o FillFrom(1, k) \o q2 :
                 q1 \in ScoreBytes, q2 \in ScoreBytes, k \in 0..MaxFill}

DecodeLoop == Return("read_scores_loop", read_scores_loop(arg))
DecodeHarness == Return("unpack10i", unpack10i(arg))

(* Hex text of the .mem files. A Python integer below 2^32 is kept as its  *)
(* highest hex digit (of eight) and the 28 bits under it, since it may be   *)
(* 2^31 or more.                                                            *)

MaxHexStep == 3

HexChars == <<"0", "1", "2", "3", "4", "5", "6", "7",
              "8", "9", "a", "b", "c", "d", "e", "f">>
Pow28 == 268435456

(* val, or val + 2^W when val is negative *)
Unsigned(val, W) ==
    IF val >= 0 THEN [hi |-> val \div Pow28, lo |-> val % Pow28]
    ELSE IF W = 8 THEN [hi |-> 0, lo |-> val + 256]
    ELSE [hi |-> 8 + ((val - INT32_MIN) \div Pow28), lo |-> (val - INT32_MIN) % Pow28]

(* format(u, 'x'): the hex digits of u >= 0, no padding *)
RECURSIVE HexOf(_)
HexOf(u) == IF u < 16 THEN <<HexChars[u + 1]>>
            ELSE HexOf(u \div 16) \o <<HexChars[(u % 16) + 1]>>

(* zero padding on the left up to n characters *)
RECURSIVE PadLeft(_, _)
PadLeft(t, n) == IF Len(t) >= n THEN t ELSE PadLeft(<<"0">> \o t, n)

(* f"{val:0nx}" *)
FormatHex(u, n) ==
    IF u.hi = 0 THEN PadLeft(HexOf(u.lo), n)
    ELSE PadLeft(HexOf(u.hi) \o PadLeft(HexOf(u.lo), 7), n)

(* save_mem_weights / save_mem_biases: one line of the file, W = 8 or 32 *)
save_mem_value(val, W) == FormatHex(Unsigned(val, W), W \div 4)

(* int(x, 16) for a text of at most eight hex digits *)
HexValue(ch) == CHOOSE d \in 0..15 : HexChars[d + 1] = ch
RECURSIVE IntOf(_)
IntOf(t) == IF t = <<>> THEN 0
            ELSE 16 * IntOf(SubSeq(t, 1, Len(t) - 1)) + HexValue(t[Len(t)])
ParseHex(t) ==
    IF Len(t) <= 7 THEN [hi |-> 0, lo |-> IntOf(t)]
    ELSE [hi |-> HexValue(t[1]), lo |-> IntOf(SubSeq(t, 2, Len(t)))]

(* load_model_and_scaler: int(x, 16) if int(x, 16) < 2^(W-1) else int(x, 16) - 2^W *)
load_mem_value_keeps_half(x, W) ==
    LET u == ParseHex(x) IN
    IF W = 8 THEN (IF u.lo <= 128 THEN u.lo ELSE u.lo - 256)
    ELSE (IF u.hi <= 8 THEN u.hi * Pow28 + u.lo ELSE (u.hi - 16) * Pow28 + u.lo)
load_mem_value(x, W) ==
    LET u == ParseHex(x) IN
    IF W = 8 THEN (IF u.lo < 128 THEN u.lo ELSE u.lo - 256)
    ELSE (IF u.hi < 8 THEN u.hi * Pow28 + u.lo ELSE (u.hi - 16) * Pow28 + u.lo)

(* the values written: every int8, and int32 values at and between the ends *)
Int8Values == -128..127
Int32Values == ScoreVals \cup {INT32_MIN + 1, INT32_MAX - 1, 305419896, -305419896}
               \cup {s * (k * 19088743 + 15) : s \in {-1, 1}, k \in 0..MaxHexStep}
MemValues == {<<8, v>> : v \in Int8Values} \cup {<<32, v>> : v \in Int32Values}

(* a value is written to a .mem file ... *)
SaveMem ==
    /\ fn = "mem_round_trip" /\ pc = "call"
    /\ out' = <<save_mem_value(arg[2], arg[1])>>
    /\ pc' = "saved"
    /\ UNCHANGED <<FnRest, hostRest, devVars>>

(* ... and read back *)
LoadMem ==
    /\ fn = "mem_round_trip" /\ pc = "saved"
    /\ out' = <<out[1], load_mem_value(out[1], arg[1])>>
    /\ pc' = "return"
    /\ UNCHANGED <<FnRest, hostRest, devVars>>

(* regresja/python/convert_to_binary.py. A file is the sequence of its      *)
(* stripped lines, each a sequence of hex characters, <<>> an empty line.  *)

MaxLines == 2

(* 1 for 8-bit, 4 for 32-bit, 0 for None: decided by the first line that   *)
(* is not empty                                                            *)
RECURSIVE detect_bytes_per_value(_)
detect_bytes_per_value(lines) ==
    IF lines = <<>> THEN 0
    ELSE IF Head(lines) = <<>> THEN detect_bytes_per_value(Tail(lines))
    ELSE IF Len(Head(lines)) = 2 THEN 1
    ELSE IF Len(Head(lines)) = 8 THEN 4
    ELSE 0

(* (value >> (k * 8)) & 0xFF of value = int(line, 16) *)
ValueByte(u, k) ==
    IF k < 3 THEN (u.lo \div (256 ^ k)) % 256
    ELSE IF k = 3 THEN (u.lo \div 16777216) + 16 * u.hi
    ELSE 0

(* the bytes appended for one line *)
LineBytes(line, bytes_per_value) ==
    LET value == ParseHex(line) IN
    IF bytes_per_value = 1 THEN <<ValueByte(value, 0)>>
    ELSE [k \in 1..bytes_per_value |-> ValueByte(value, k - 1)]

RECURSIVE convert_mem_to_bin(_, _)
convert_mem_to_bin(lines, bytes_per_value) ==
    IF lines = <<>> THEN <<>>
    ELSE IF Head(lines) = <<>> THEN convert_mem_to_bin(Tail(lines), bytes_per_value)
    ELSE LineBytes(Head(lines), bytes_per_value)
            \o convert_mem_to_bin(Tail(lines), bytes_per_value)

(* main: one .mem file is skipped or converted *)
convert_file(lines) ==
    LET bytes_per_value == detect_bytes_per_value(lines) IN
    IF bytes_per_value = 0 THEN [status |-> "skipped", data |-> <<>>]
    ELSE [status |-> "converted", data |-> convert_mem_to_bin(lines, bytes_per_value)]

MemLines == {<<>>, <<"0", "a">>, <<"f", "f">>, <<"1", "2", "3">>,
             <<"1", "2", "3", "4">>, <<"0", "0", "0", "0", "0", "0", "0", "a">>,
             <<"8", "0", "0", "0", "0", "0", "0", "1">>}
MemFiles == UNION {[1..n -> MemLines] : n \in 0..MaxLines}

ConvertFile == Return("convert_file", convert_file(arg))

(* The reference engines: one neuron of a Dense layer. The code loops over *)
(* 784 or 16 inputs; here the input vector has MaxTerms entries.           *)

MaxTerms == 2

(* np.int32(a + b) on two np.int32: the sum reduced modulo 2^32 *)
Add32Saturating(a, b) ==
    IF a >= 0 /\ b >= 0 /\ a > INT32_MAX - b THEN INT32_MAX
    ELSE IF a < 0 /\ b < 0 /\ a < INT32_MIN - b THEN INT32_MIN
    ELSE a + b
Add32(a, b) ==
    IF a >= 0 /\ b >= 0 /\ a > INT32_MAX - b
    THEN (a + INT32_MIN) + (b + INT32_MIN)
    ELSE IF a < 0 /\ b < 0 /\ a < INT32_MIN - b
    THEN (a - INT32_MIN) + (b - INT32_MIN)
    ELSE a + b

(* the multiply-accumulate loop in index order, from entry k on *)
RECURSIVE mac_wrap(_, _, _, _)
mac_wrap(accumulator, pixels, weights, k) ==
    IF k > Len(pixels) THEN accumulator
    ELSE mac_wrap(Add32(accumulator, weights[k] * pixels[k]), pixels, weights, k + 1)

(* fpga_inference_with_overflow: the score of one class *)
score_wrap(pixels, weights, bias) == Add32(mac_wrap(0, pixels, weights, 1), bias)

PixelValues == {-128, -1, 0, 127}
WeightValues == {-128, -1, 1, 127}
BiasValues == {INT32_MIN, INT32_MIN + 16000, -1, 0, INT32_MAX - 16000, INT32_MAX}
NeuronInputs ==
    {<<x, w, b>> : x \in [1..MaxTerms -> PixelValues],
                   w \in [1..MaxTerms -> WeightValues], b \in BiasValues}

ScoreWrap == Return("score_wrap", score_wrap(arg[1], arg[2], arg[3]))

(* np.int64 values: v = q * 65536 + r with 0 <= r < 65536, since a dot     *)
(* product of layer 2 or 3 may pass the int32 range                        *)
Wide(v) == [q |-> v \div 65536, r |-> v % 65536]
WideAdd(a, b) ==
    [q |-> a.q + b.q + ((a.r + b.r) \div 65536), r |-> (a.r + b.r) % 65536]
(* np.int64(x) * np.int64(w) for an int32 activation and an int8 weight *)
WideMul(x, w) ==
    LET X == Wide(x) IN
    [q |-> X.q * w + ((X.r * w) \div 65536), r |-> (X.r * w) % 65536]

(* if acc > 2147483647: acc = 2147483647 elif acc < -2147483648: ... *)
clip32(acc) ==
    IF acc.q > 32767 THEN INT32_MAX
    ELSE IF acc.q < -32768 THEN INT32_MIN
    ELSE acc.q * 65536 + acc.r

(* acc += product over the inputs, in int64 *)
RECURSIVE dot64(_, _, _, _)
dot64(acc, inputs, weights, k) ==
    IF k > Len(inputs) THEN acc
    ELSE dot64(WideAdd(acc, WideMul(inputs[k], weights[k])), inputs, weights, k + 1)

(* layers 2 and 3 of fpga_inference_simulation: the value before the shift *)
pre_shift_clamp_twice(inputs, weights, bias) ==
    clip32(WideAdd(Wide(clip32(dot64(Wide(0), inputs, weights, 1))), Wide(bias)))
pre_shift_saturating(inputs, weights, bias) ==
    clip32(WideAdd(dot64(Wide(0), inputs, weights, 1), Wide(bias)))

ActivationValues == {0, 1, 16777215}
SatBiasValues == {INT32_MIN, -200, 0, 1, INT32_MAX}
SatInputs ==
    {<<x, w, b>> : x \in [1..MaxTerms -> ActivationValues],
                   w \in [1..MaxTerms -> WeightValues], b \in SatBiasValues}

PreShiftSaturating ==
    Return("pre_shift_saturating", pre_shift_saturating(arg[1], arg[2], arg[3]))

(* acc >> shift on a signed numpy integer: the sign bit is shifted in *)

MaxShift == 8
MaxAcc == 16

arshift_toward_zero(acc, shift) ==
    IF acc >= 0 THEN acc \div (2 ^ shift) ELSE -((-(acc + 1)) \div (2 ^ shift))
arshift(acc, shift) ==
    IF acc >= 0 THEN acc \div (2 ^ shift)
    ELSE -((-(acc + 1)) \div (2 ^ shift)) - 1

AccValues == (-MaxAcc..MaxAcc) \cup ScoreVals \cup {-128, 127, 128, 16384, -16385}
ShiftInputs == {<<a, s>> : a \in AccValues, s \in 0..MaxShift}

ShiftStep == Return("arshift", arshift(arg[1], arg[2]))

(* Conv2D output stage and 2x2 max pooling of the CNN engines, on one      *)
(* channel: a feature map is the sequence of its rows                      *)

MaxGrid == 3
MaxSeed == 6

(* if acc < 0: acc = 0; if acc > 127: acc = 127 *)
relu_only(acc) == IF acc < 0 THEN 0 ELSE acc
relu_clamp(acc) == IF acc < 0 THEN 0 ELSE IF acc > 127 THEN 127 ELSE acc

(* the output stage applied to every shifted accumulator of the map *)
conv_output(shifted) ==
    [r \in 1..Len(shifted) |-> [c \in 1..Len(shifted[r]) |-> relu_clamp(shifted[r][c])]]

(* max_pool_2x2: stride 2, new_h = h // 2, new_w = w // 2 *)
max_pool_2x2(input_vol) ==
    LET new_h == Len(input_vol) \div 2
        new_w == Len(input_vol[1]) \div 2
    IN [r \in 1..new_h |-> [col \in 1..new_w |->
          MaxOf(<<input_vol[2 * r - 1][2 * col - 1], input_vol[2 * r - 1][2 * col],
                  input_vol[2 * r][2 * col - 1], input_vol[2 * r][2 * col]>>)]]

(* shifted accumulators: around the two ends of [0, 127] and far from them *)
ShiftedValues == <<-1, 0, 127, 128, 64, -300, 300>>
ShiftedMap(h, w, seed) ==
    [r \in 1..h |-> [c \in 1..w |->
        ShiftedValues[((3 * r + 5 * c + seed + r * c * seed) % Len(ShiftedValues)) + 1]]]
ShiftedMaps == {ShiftedMap(h, w, seed) :
                   h \in 2..MaxGrid, w \in 2..MaxGrid, seed \in 0..MaxSeed}

(* convolve_layer: shift done, ReLU and saturation of every element ... *)
ConvOutput ==
    /\ fn = "conv_pool" /\ pc = "call"
    /\ out' = conv_output(arg)
    /\ pc' = "conv_done"
    /\ UNCHANGED <<FnRest, hostRest, devVars>>

(* ... then x = max_pool_2x2(x) *)
MaxPool ==
    /\ fn = "conv_pool" /\ pc = "conv_done"
    /\ out' = max_pool_2x2(out)
    /\ pc' = "return"
    /\ UNCHANGED <<FnRest, hostRest, devVars>>

(* product = weight * pixel on np.int16, then np.int32(product) *)
product_of_bytes(weight, pixel) == (weight % 256) * (pixel % 256)
product_32(weight, pixel) == weight * pixel

(* one pass of the multiply-accumulate loop of a class with its overflow   *)
(* check: st holds accumulator, overflow_detected and pixel_idx, the       *)
(* number of pixels done                                                   *)
mac_step(st, pixels, weights) ==
    LET accumulator == st.accumulator
        product == product_32(weights[st.pixel_idx + 1], pixels[st.pixel_idx + 1])
        new_accumulator == Add32(accumulator, product)
        hit == \/ (accumulator > 0 /\ product > 0 /\ new_accumulator < 0)
               \/ (accumulator < 0 /\ product < 0 /\ new_accumulator > 0)
    IN [accumulator |-> new_accumulator,
        overflow_detected |-> st.overflow_detected \/ hit,
        pixel_idx |-> st.pixel_idx + 1]

(* accumulator = np.int32(0) at the head of a class *)
mac_start == [accumulator |-> 0, overflow_detected |-> FALSE, pixel_idx |-> 0]

(* the whole loop of a class *)
RECURSIVE mac_scan(_, _, _)
mac_scan(st, pixels, weights) ==
    IF st.pixel_idx >= Len(pixels) THEN st
    ELSE mac_scan(mac_step(st, pixels, weights), pixels, weights)

(* short vectors of every mix of the end values, and vectors of the full   *)
(* 784 entries that hold one end value each                                *)
ScanInputs ==
    {<<x, w>> : x \in [1..MaxTerms -> PixelValues], w \in [1..MaxTerms -> WeightValues]}
    \cup {<<[k \in 1..ImgSize |-> v], [k \in 1..ImgSize |-> w]>> :
              v \in {-128, 127}, w \in {-128, 127}}

(* the loop of one class, pass by pass *)
ScanStart ==
    /\ fn = "scan_class" /\ pc = "call"
    /\ out' = mac_start
    /\ pc' = "mac"
    /\ UNCHANGED <<FnRest, hostRest, devVars>>

ScanStep ==
    /\ fn = "scan_class" /\ pc = "mac"
    /\ out' = mac_step(out, arg[1], arg[2])
    /\ pc' = IF out'.pixel_idx = Len(arg[1]) THEN "return" ELSE "mac"
    /\ UNCHANGED <<FnRest, hostRest, devVars>>

(* fpga_inference_with_overflow over the 10 classes, and the prediction *)
fpga_inference_with_overflow(input_pixels, weights, biases) ==
    LET scores == [c \in 1..NumClasses |->
                      score_wrap(input_pixels, weights[c], biases[c])]
    IN [predicted_digit |-> argmax(scores), scores |-> scores,
        overflow_detected |->
            \E c \in 1..NumClasses :
                mac_scan(mac_start, input_pixels, weights[c]).overflow_detected]

(* display_scores: scores.index(max(scores)) *)
RECURSIVE index(_, _, _)
index(scores, v, k) == IF scores[k] = v THEN k - 1 ELSE index(scores, v, k + 1)
predicted_digit(scores) == index(scores, MaxOf(scores), 1)

ZeroWeights == [c \in 1..NumClasses |-> [k \in 1..MaxTerms |-> 0]]
SomeWeights == [c \in 1..NumClasses |-> [k \in 1..MaxTerms |-> ((c * k) % 3) - 1]]
BiasVectors ==
    {<<5, 3, 3, 1, 1, 1, 1, 1, 1, 1>>, <<0, 0, 0, 0, 0, 0, 0, 0, 0, 0>>,
     <<1, 1, 1, 1, 1, 1, 1, 1, 9, 9>>, <<-4, 7, -9, 7, 2, 7, 0, -1, 6, 3>>,
     <<INT32_MIN, -1, INT32_MAX, 0, 1, INT32_MAX, -1, 0, 1, INT32_MIN>>}
InferenceInputs ==
    {<<x, w, b>> : x \in [1..MaxTerms -> PixelValues],
                   w \in {ZeroWeights, SomeWeights}, b \in BiasVectors}

Inference ==
    Return("fpga_inference_with_overflow",
           fpga_inference_with_overflow(arg[1], arg[2], arg[3]))
DisplayScores == Return("display_scores", predicted_digit(arg))

(* 2_ukryte: the three Dense layers 784 -> 16 -> 16 -> 10. The image has   *)
(* MaxTerms entries here and each hidden layer MaxHidden neurons.          *)

MaxHidden == 2

SHIFT1 == 7
SHIFT2 == 7

(* max(0, acc) *)
relu(acc) == IF acc > 0 THEN acc ELSE 0

(* compare_python_vs_fpga.py, layer 1: acc += product on np.int32 scalars *)
RECURSIVE compare_mac(_, _, _, _)
compare_mac(acc, image_int8, row, k) ==
    IF k > Len(image_int8) THEN acc
    ELSE compare_mac(Add32(acc, image_int8[k] * row[k]), image_int8, row, k + 1)

compare_layer1(image_int8, L1_W, L1_B) ==
    [n \in 1..MaxHidden |->
        relu(arshift(Add32(compare_mac(0, image_int8, L1_W[n], 1), L1_B[n]), SHIFT1))]

(* layer 2: int64 accumulation, clip to int32, shift, ReLU *)
compare_layer2(L1_outputs, L2_W, L2_B) ==
    [n \in 1..MaxHidden |->
        relu(arshift(pre_shift_saturating(L1_outputs, L2_W[n], L2_B[n]), SHIFT2))]

(* layer 3: int64 accumulation, clip to int32, no shift and no ReLU *)
compare_layer3(L2_outputs, L3_W, L3_B) ==
    [c \in 1..NumClasses |-> pre_shift_saturating(L2_outputs, L3_W[c], L3_B[c])]

(* fpga_inference_simulation of the comparison harness; model is           *)
(* <<L1_W, L1_B, L2_W, L2_B, L3_W, L3_B>>                                  *)
compare_fpga_inference_simulation(image_int8, model) ==
    LET L1_outputs == compare_layer1(image_int8, model[1], model[2])
        L2_outputs == compare_layer2(L1_outputs, model[3], model[4])
        L3_outputs == compare_layer3(L2_outputs, model[5], model[6])
    IN [predicted_digit |-> argmax(L3_outputs), scores |-> L3_outputs,
        layer_outputs |-> <<L1_outputs, L2_outputs, L3_outputs>>]

(* generate_test_vectors.py, layer 1: acc = np.int32(acc + product) *)
RECURSIVE generate_mac(_, _, _, _)
generate_mac(acc, image_int8, row, k) ==
    IF k > Len(image_int8) THEN acc
    ELSE LET product == image_int8[k] * row[k]
         IN generate_mac(Add32(acc, product), image_int8, row, k + 1)

generate_layer1_saturating(image_int8, L1_W, L1_B) ==
    [n \in 1..MaxHidden |->
        LET acc == Add32Saturating(generate_mac(0, image_int8, L1_W[n], 1), L1_B[n])
        IN relu(arshift(acc, SHIFT1))]
generate_layer1(image_int8, L1_W, L1_B) ==
    [n \in 1..MaxHidden |->
        LET acc == Add32(generate_mac(0, image_int8, L1_W[n], 1), L1_B[n])
        IN relu(arshift(acc, SHIFT1))]

generate_layer2(L1_outputs, L2_W, L2_B) ==
    [n \in 1..MaxHidden |->
        LET acc == clip32(WideAdd(dot64(Wide(0), L1_outputs, L2_W[n], 1), Wide(L2_B[n])))
        IN relu(arshift(acc, SHIFT2))]

generate_layer3(L2_outputs, L3_W, L3_B) ==
    [c \in 1..NumClasses |->
        clip32(WideAdd(dot64(Wide(0), L2_outputs, L3_W[c], 1), Wide(L3_B[c])))]

(* fpga_inference_simulation of the fixture generator *)
generate_fpga_inference_simulation(image_int8, model) ==
    LET L1_outputs == generate_layer1(image_int8, model[1], model[2])
        L2_outputs == generate_layer2(L1_outputs, model[3], model[4])
        L3_outputs == generate_layer3(L2_outputs, model[5], model[6])
    IN [predicted_digit |-> argmax(L3_outputs), scores |-> L3_outputs,
        layer_outputs |-> <<L1_outputs, L2_outputs, L3_outputs>>]

(* models of the three-Dense preset: int8 weights and int32 biases, picked *)
(* by place from values at and between the ends of their ranges            *)

MaxModelSeed == 7

WeightSeq == <<-128, -1, 1, 127>>
BiasSeq == <<INT32_MAX, INT32_MAX - 16000, 0, -1, 16384, INT32_MIN, -200, 40000>>
DenseWeights(rows, cols, s) ==
    [n \in 1..rows |-> [k \in 1..cols |-> WeightSeq[((n + 2 * k + s) % Len(WeightSeq)) + 1]]]
DenseBiases(rows, s) ==
    [n \in 1..rows |-> BiasSeq[((3 * n + s) % Len(BiasSeq)) + 1]]
DenseModel(s) ==
    <<DenseWeights(MaxHidden, MaxTerms, s), DenseBiases(MaxHidden, s),
      DenseWeights(MaxHidden, MaxHidden, s + 1), DenseBiases(MaxHidden, s + 2),
      DenseWeights(NumClasses, MaxHidden, s + 3), DenseBiases(NumClasses, s + 5)>>
DenseModels == {DenseModel(s) : s \in 0..MaxModelSeed}
DenseInputs == {<<x, m>> : x \in [1..MaxTerms -> PixelValues], m \in DenseModels}

(* the images of a loop over samples *)
SessionImages == {[k \in 1..MaxTerms |-> v] : v \in {-128, -1, 127}}

CompareInference ==
    Return("compare_fpga_inference_simulation",
           compare_fpga_inference_simulation(arg[1], arg[2]))
GenerateInference ==
    Return("generate_fpga_inference_simulation",
           generate_fpga_inference_simulation(arg[1], arg[2]))

(* load_quantized_model of the three-Dense harness. A blob file is absent  *)
(* or holds a sequence of elements of its dtype.                           *)

MaxFileSeed == 1

RECURSIVE Flatten(_)
Flatten(W) == IF W = <<>> THEN <<>> ELSE Head(W) \o Flatten(Tail(W))

(* data.reshape(rows, cols) of a blob with rows * cols elements *)
reshape(data, rows, cols) ==
    [n \in 1..rows |-> [k \in 1..cols |-> data[(n - 1) * cols + k]]]

FileOf(data) == [exists |-> TRUE, data |-> data]
ModelFiles(s) ==
    LET model == DenseModel(s) IN
    <<FileOf(Flatten(model[1])), FileOf(model[2]), FileOf(Flatten(model[3])),
      FileOf(model[4]), FileOf(Flatten(model[5])), FileOf(model[6])>>

(* one of the six files as written by training, absent, one element longer *)
(* or one element shorter                                                  *)
FileFaults == {"none", "missing", "long", "short"}
Faulty(files, j, fault) ==
    [files EXCEPT ![j] =
        CASE fault = "none" -> @
          [] fault = "missing" -> [exists |-> FALSE, data |-> <<>>]
          [] fault = "long" -> FileOf(Append(@.data, 1))
          [] fault = "short" -> FileOf(SubSeq(@.data, 1, Len(@.data) - 1))]
LoadInputs ==
    {<<x, Faulty(ModelFiles(s), j, f)>> :
        x \in SessionImages, s \in 0..MaxFileSeed, j \in 1..6, f \in FileFaults}

(* the shapes the preset declares: weights (rows, cols), biases (rows,) *)
DeclaredRows == <<MaxHidden, MaxHidden, MaxHidden, MaxHidden, NumClasses, NumClasses>>
DeclaredCols == <<MaxTerms, 1, MaxHidden, 1, MaxHidden, 1>>

(* sys.exit(1) when a file is not found; reshape raises ValueError when    *)
(* the element count of a weight blob is not rows * cols; the bias blobs   *)
(* are taken as np.fromfile returns them                                   *)
load_quantized_model(files) ==
    IF \E j \in 1..6 : ~files[j].exists
    THEN [status |-> "exit", model |-> <<>>]
    ELSE IF \E j \in {1, 3, 5} : Len(files[j].data) # DeclaredRows[j] * DeclaredCols[j]
    THEN [status |-> "ValueError", model |-> <<>>]
    ELSE [status |-> "loaded",
          model |-> <<reshape(files[1].data, MaxHidden, MaxTerms), files[2].data,
                      reshape(files[3].data, MaxHidden, MaxHidden), files[4].data,
                      reshape(files[5].data, NumClasses, MaxHidden), files[6].data>>]

(* run_comparison: the model is loaded, or the run ends *)
LoadModel ==
    /\ fn = "load_quantized_model" /\ pc = "call"
    /\ out' = load_quantized_model(arg[2])
    /\ pc' = IF out'.status = "loaded" THEN "loaded" ELSE "return"
    /\ UNCHANGED <<FnRest, hostRest, devVars>>

(* the first sample: L1_B[n], L2_B[n], L3_B[c] raise IndexError past the   *)
(* end of a bias array, before any score is returned                       *)
infer_loaded(x_int8, model) ==
    IF \E j \in {2, 4, 6} : Len(model[j]) < DeclaredRows[j]
    THEN [status |-> "IndexError", scores |-> <<>>]
    ELSE [status |-> "inferred",
          scores |-> compare_fpga_inference_simulation(x_int8, model).scores]

InferLoaded ==
    /\ fn = "load_quantized_model" /\ pc = "loaded"
    /\ out' = infer_loaded(arg[1], out.model)
    /\ pc' = "return"
    /\ UNCHANGED <<FnRest, hostRest, devVars>>

(* one neuron under the two policies of the engines: the 32-bit wrapping   *)
(* loop of fpga_inference_with_overflow and of layer 1, and the 64-bit sum *)
(* clipped once of layers 2 and 3                                          *)
PolicyInputs == SatInputs \cup NeuronInputs
Policies ==
    Return("policies",
           [wrap |-> score_wrap(arg[1], arg[2], arg[3]),
            saturate |-> pre_shift_saturating(arg[1], arg[2], arg[3])])

(* the calls studied: a function and its input *)
Calls(f, inputs) == {[fn |-> f, arg |-> a] : a \in inputs}

(* a 1-byte Digit read response: response[0] & 0x0F *)
low_nibble(b) == b % 16
DigitResponses == {<<b>> : b \in 0..255}
DecodeDigit == Return("low_nibble", low_nibble(arg[1]))

FnCalls ==
    Calls("read_scores_loop", Responses) \cup Calls("unpack10i", Responses)
    \cup Calls("low_nibble", DigitResponses)
    \cup Calls("mem_round_trip", MemValues)
    \cup Calls("convert_file", MemFiles)
    \cup Calls("score_wrap", NeuronInputs)
    \cup Calls("pre_shift_saturating", SatInputs)
    \cup Calls("arshift", ShiftInputs)
    \cup Calls("conv_pool", ShiftedMaps)
    \cup Calls("fpga_inference_with_overflow", InferenceInputs)
    \cup Calls("display_scores", ScoreVecs \cup BiasVectors)
    \cup Calls("compare_fpga_inference_simulation", DenseInputs)
    \cup Calls("generate_fpga_inference_simulation", DenseInputs)
    \cup Calls("load_quantized_model", LoadInputs)
    \cup Calls("scan_class", ScanInputs)
    \cup Calls("policies", PolicyInputs)

InitFn ==
    /\ prog = "function"
    /\ test_samples = 0
    /\ pc = "call"
    /\ image = <<>>
    /\ python_scores = NoScores
    /\ fpga_scores = NoScores
    /\ InitCommon
    /\ chunks = <<>>
    /\ all_data = <<>>
    /\ total_packet_size = 0
    /\ bytes_sent = 0
    /\ \E c \in FnCalls : fn = c.fn /\ arg = c.arg
    /\ out = <<>>

FnNext ==
    \/ DecodeLoop
    \/ DecodeHarness
    \/ DecodeDigit
    \/ SaveMem
    \/ LoadMem
    \/ ConvertFile
    \/ ScoreWrap
    \/ PreShiftSaturating
    \/ ShiftStep
    \/ ConvOutput
    \/ MaxPool
    \/ Inference
    \/ DisplayScores
    \/ CompareInference
    \/ GenerateInference
    \/ LoadModel
    \/ InferLoaded
    \/ ScanStart
    \/ ScanStep
    \/ Policies

SpecFn == InitFn /\ [][FnNext]_vars

----------------------------------------------------------------------------
(* A session of inference calls on one model, as the loops of the harness  *)
(* and of the simulation make them: arg holds the caller's arrays, the     *)
(* image and the model, and out the images given and the scores returned.  *)

MaxCalls == 3

SessionRest == <<prog, test_samples, i, exc, image, sent, txlog, delayed,
                 reads_done, rx, resp, python_scores, fpga_scores, fpga_pred,
                 elapsed, rc, chunks, all_data, total_packet_size, bytes_sent, fn>>

WrapModels == {<<w, b>> : w \in {ZeroWeights, SomeWeights}, b \in BiasVectors}

(* the caller's arrays after a call: both functions assign to their locals *)
(* only (scores, accumulator; L1_outputs, L2_outputs, L3_outputs, acc),    *)
(* never through a parameter                                               *)
caller_arrays_bias_accumulates(input_pixels, model) ==
    <<input_pixels,
      [model EXCEPT ![2] = [n \in DOMAIN @ |-> Add32(@[n], input_pixels[1])]]>>
caller_arrays(input_pixels, model) == <<input_pixels, model>>

(* img_preprocessed = ...: the next image of the loop *)
SessionImage ==
    /\ prog = "session" /\ pc = "idle"
    /\ Len(out) < MaxCalls
    /\ \E x \in SessionImages : arg' = <<x, arg[2]>>
    /\ pc' = "call"
    /\ UNCHANGED <<SessionRest, out, hostRest, devVars>>

(* pred, scores, had_overflow = fpga_inference_with_overflow(img, W, B) *)
SessionCallWrap ==
    /\ prog = "session" /\ pc = "call"
    /\ fn = "fpga_inference_with_overflow"
    /\ out' = Append(out,
                [image |-> arg[1],
                 scores |-> fpga_inference_with_overflow(arg[1], arg[2][1], arg[2][2]).scores])
    /\ arg' = caller_arrays(arg[1], arg[2])
    /\ pc' = "idle"
    /\ UNCHANGED <<SessionRest, hostRest, devVars>>

(* python_pred, python_scores, _ = fpga_inference_simulation(x_int8, ...) *)
SessionCallDense ==
    /\ prog = "session" /\ pc = "call"
    /\ fn = "fpga_inference_simulation"
    /\ out' = Append(out,
                [image |-> arg[1],
                 scores |-> compare_fpga_inference_simulation(arg[1], arg[2]).scores])
    /\ arg' = caller_arrays(arg[1], arg[2])
    /\ pc' = "idle"
    /\ UNCHANGED <<SessionRest, hostRest, devVars>>

InitSession ==
    /\ prog = "session"
    /\ test_samples = 0
    /\ pc = "idle"
    /\ image = <<>>
    /\ python_scores = NoScores
    /\ fpga_scores = NoScores
    /\ InitCommon
    /\ chunks = <<>>
    /\ all_data = <<>>
    /\ total_packet_size = 0
    /\ bytes_sent = 0
    /\ \E c \in Calls("fpga_inference_with_overflow", WrapModels)
                \cup Calls("fpga_inference_simulation", DenseModels) :
          fn = c.fn /\ arg = <<<<>>, c.arg>>
    /\ out = <<>>

SessionNext ==
    \/ SessionImage
    \/ SessionCallWrap
    \/ SessionCallDense

SpecSession == InitSession /\ [][SessionNext]_vars

----------------------------------------------------------------------------
(* generate_test_vectors.py (2_ukryte and regresja): the four fixture      *)
(* files, written line by line. arg holds the test data and the model, fn  *)
(* names the engine, and out holds the files with the locals of the loop.  *)

MaxVectors == 2

GenRest == <<prog, test_samples, sent, txlog, delayed, reads_done, rx, resp,
             python_scores, fpga_scores, fpga_pred, elapsed, rc, chunks,
             all_data, total_packet_size, bytes_sent, fn, arg>>

GenPcs == {"g_head", "g_pixels", "g_scores", "g_meta", "g_label"}

(* img_preprocessed.view(np.uint8), scores.view(np.uint32): the same bits *)
view_unsigned(val, W) == Unsigned(val, W)

(* f"{byte:02x}\n", f"{score:08x}\n", f"{pred:01x}\n": one line *)
hex_line_unpadded(val, W, n) == HexOf(view_unsigned(val, W).lo)
hex_line(val, W, n) == FormatHex(view_unsigned(val, W), n)

(* pred, scores, ... of the engine the script imports or defines *)
gen_inference(engine, img_preprocessed, model) ==
    IF engine = "fpga_inference_simulation"
    THEN generate_fpga_inference_simulation(img_preprocessed, model)
    ELSE fpga_inference_with_overflow(img_preprocessed, model[1], model[2])

(* X_test[i], y_test[i] *)
TestSamples ==
    {[img |-> [k \in 1..MaxTerms |-> s[1]], label |-> s[2]] :
        s \in {<<-128, 0>>, <<-1, 9>>, <<127, 7>>}}
TestData == [1..MaxVectors -> TestSamples]
GenModels ==
    Calls("fpga_inference_simulation", {DenseModel(s) : s \in 0..MaxFileSeed})
    \cup Calls("fpga_inference_with_overflow", WrapModels)

(* for i in range(NUM_TEST_VECTORS): the image is preprocessed and the     *)
(* simulation run                                                          *)
GenSample ==
    /\ prog = "generate" /\ pc = "g_head"
    /\ i < MaxVectors
    /\ image' = arg[1][i + 1].img
    /\ LET r == gen_inference(fn, image', arg[2])
       IN out' = [out EXCEPT !.pred = r.predicted_digit, !.scores = r.scores,
                             !.pos = 0]
    /\ pc' = "g_pixels"
    /\ UNCHANGED <<GenRest, i, exc, hostRest, devVars>>

(* for byte in img_uint8: f_pixels.write(...) *)
GenWritePixel ==
    /\ prog = "generate" /\ pc = "g_pixels"
    /\ out' = [out EXCEPT !.f_pixels = Append(@, hex_line(image[out.pos + 1], 8, 2)),
                          !.pos = IF out.pos + 1 = Len(image) THEN 0 ELSE @ + 1]
    /\ pc' = IF out.pos + 1 = Len(image) THEN "g_scores" ELSE "g_pixels"
    /\ UNCHANGED <<GenRest, i, exc, image, hostRest, devVars>>

(* for score in scores_uint32: f_scores.write(...) *)
GenWriteScore ==
    /\ prog = "generate" /\ pc = "g_scores"
    /\ out' = [out EXCEPT !.f_scores = Append(@, hex_line(out.scores[out.pos + 1], 32, 8)),
                          !.pos = IF out.pos + 1 = Len(out.scores) THEN 0 ELSE @ + 1]
    /\ pc' = IF out.pos + 1 = Len(out.scores) THEN "g_meta" ELSE "g_scores"
    /\ UNCHANGED <<GenRest, i, exc, image, hostRest, devVars>>

(* f_meta.write(f"{pred:01x}\n") *)
GenWriteMeta ==
    /\ prog = "generate" /\ pc = "g_meta"
    /\ out' = [out EXCEPT !.f_meta = Append(@, hex_line(out.pred, 32, 1))]
    /\ pc' = "g_label"
    /\ UNCHANGED <<GenRest, i, exc, image, hostRest, devVars>>

(* f_labels.write(f"{true_label:01x}\n"), and the next sample *)
GenWriteLabel ==
    /\ prog = "generate" /\ pc = "g_label"
    /\ out' = [out EXCEPT !.f_labels = Append(@, hex_line(arg[1][i + 1].label, 32, 1))]
    /\ i' = i + 1
    /\ pc' = "g_head"
    /\ UNCHANGED <<GenRest, exc, image, hostRest, devVars>>

(* the loop is over and the files are closed *)
GenClose ==
    /\ prog = "generate" /\ pc = "g_head"
    /\ i = MaxVectors
    /\ pc' = "g_done"
    /\ UNCHANGED <<GenRest, i, exc, image, out, hostRest, devVars>>

(* Ctrl+C: no handler in the script, KeyboardInterrupt ends the process    *)
(* and the files keep every line written so far                            *)
GenInterrupt ==
    /\ prog = "generate" /\ pc \in GenPcs
    /\ exc' = "KeyboardInterrupt"
    /\ pc' = "interrupted"
    /\ UNCHANGED <<GenRest, i, image, out, hostRest, devVars>>

InitGen ==
    /\ prog = "generate"
    /\ test_samples = 0
    /\ pc = "g_head"
    /\ image = <<>>
    /\ python_scores = NoScores
    /\ fpga_scores = NoScores
    /\ InitCommon
    /\ chunks = <<>>
    /\ all_data = <<>>
    /\ total_packet_size = 0
    /\ bytes_sent = 0
    /\ \E c \in GenModels : \E d \in TestData : fn = c.fn /\ arg = <<d, c.arg>>
    /\ out = [f_pixels |-> <<>>, f_scores |-> <<>>, f_meta |-> <<>>,
              f_labels |-> <<>>, pred |-> 0, scores |-> <<>>, pos |-> 0]

GenNext ==
    \/ GenSample
    \/ GenWritePixel
    \/ GenWriteScore
    \/ GenWriteMeta
    \/ GenWriteLabel
    \/ GenClose
    \/ GenInterrupt

SpecGen == InitGen /\ [][GenNext]_vars

----------------------------------------------------------------------------
(* Properties *)

(* the image-upload frame as the protocol table states it *)
TwosComplementByte(v) == IF v < 0 THEN v + 256 ELSE v
ExpectedFrame(img) ==
    <<187, 102>> \o [p \in 1..Len(img) |-> TwosComplementByte(img[p])] \o <<102, 187>>
FrameLen == ImgSize + 4

SendPcs == {"send_start", "send_data", "send_end"}
ScoresHarness == CmpProgs \cup {"cnn_cmp"}

(* read requests written for the sample in progress, and those unanswered *)
Requests(t) == IF Len(t) > FrameLen THEN Len(t) - FrameLen ELSE 0
Outstanding == Requests(txlog) - reads_done

(* the status a response by itself calls for *)
StatusFromResponse(ref, r) ==
    IF Len(r) # ScoresLen THEN "Error"
    ELSE IF \A c \in 1..NumClasses : unpack10i(Vals(r))[c] = ref[c] THEN "Match"
    ELSE "Mismatch"

C1_ReadStep ==
    (prog \in CmpProgs /\ pc = "await_scores" /\ pc' = "classify"
        /\ Len(resp') < ScoresLen)
    => (fpga_scores' = NoScores /\ exc' = "none")

C1_ClassifyStep ==
    (prog \in CmpProgs /\ pc = "classify" /\ pc' = "loop" /\ Len(resp) < ScoresLen)
    => /\ error_count' = error_count + 1
       /\ match_count' = match_count
       /\ mismatch_count' = mismatch_count
       /\ records' = Append(records, [idx |-> i, status |-> "Error", max_diff |-> 0])
       /\ i' = i + 1
       /\ exc' = "none"

C1_NextSample ==
    (prog \in CmpProgs /\ pc = "classify" /\ pc' = "loop" /\ i > 0
        /\ records[i].status = "Error")
    => /\ txlog = ExpectedFrame(image) \o SCORES_READ_REQUEST
       /\ records'[i + 1].status = StatusFromResponse(RefScores(i), resp)

(* C1: in run_comparison a Scores read that returns fewer than 40 bytes    *)
(* (none included) gives None without raising; the sample is recorded as   *)
(* Error, error_count goes up by one and the other two counters stay; the  *)
(* loop goes on, and the sample after an Error is requested with the same  *)
(* frame and request and classified by its own response alone.             *)
C1_ShortResponseIsErrorOnly ==
    [][C1_ReadStep /\ C1_ClassifyStep /\ C1_NextSample]_vars

C1_Witness ==
    /\ prog = "ukryte_cmp"
    /\ Len(records) = 2
    /\ records[1].status = "Error"
    /\ records[2].status = "Match"

(* C2: per sample the comparison harnesses write the frame (start marker,  *)
(* 784 pixel bytes, end marker), wait, write one request byte and do one   *)
(* read; the request is written only after the whole frame and the delay,  *)
(* nothing is read before it, and the next sample starts after the read.   *)
C2_SampleIoOrder ==
    prog \in ScoresHarness =>
       /\ Len(txlog) <= FrameLen =>
             /\ txlog = Take(ExpectedFrame(image), Len(txlog))
             /\ reads_done = 0
       /\ Len(txlog) < FrameLen => ~delayed
       /\ Len(txlog) > FrameLen =>
             /\ txlog = ExpectedFrame(image) \o SCORES_READ_REQUEST
             /\ delayed
       /\ reads_done <= 1
       /\ reads_done = 1 => Len(txlog) = FrameLen + 1
       /\ (pc = "loop" /\ i > 0) => reads_done = 1

C2_Witness ==
    /\ prog = "cnn_cmp"
    /\ i = 1
    /\ pc = "await_scores"
    /\ delayed

(* C3: at most one read request is unanswered at any time; the host writes *)
(* frame bytes or a request only when none is; in the validated test the   *)
(* 0xCD request follows the 0xCC request and the return of its read.       *)
C3_OneOutstandingRequest ==
    /\ Outstanding \in {0, 1}
    /\ pc \in SendPcs \cup {"request_digit", "request_scores"} => Outstanding = 0
    /\ (prog = "validated" /\ Requests(txlog) = 2) =>
          /\ txlog[FrameLen + 1] = 204
          /\ txlog[FrameLen + 2] = 205
          /\ reads_done >= 1

C3_Witness ==
    /\ prog = "validated"
    /\ pc = "await_scores"
    /\ Outstanding = 1
    /\ reads_done = 1

(* C4: the delay and the request that follows it never wait for the        *)
(* device: each can be taken whenever the host has reached it, also while  *)
(* the device is still computing.                                          *)
C4_NoHandshake ==
    /\ pc = "wait" => ENABLED Wait
    /\ pc = "request_scores" => ENABLED WriteScoresRequest
    /\ pc = "request_digit" => ENABLED WriteDigitRequest

(* the host has accepted 40 bytes for sample i that are the scores of      *)
(* another image, while the device is still computing image i              *)
C4_Witness ==
    /\ prog = "ukryte_cmp"
    /\ pc = "classify"
    /\ fpga_scores # NoScores
    /\ dev_busy /\ dev_img = i
    /\ resp[1].req = i
    /\ resp[1].img # i

(* C5: a connection failure while sample k is processed is recorded as     *)
(* Error for sample k and never ends the run.                              *)
C5_ConnFailureRecorded ==
    (prog \in HarnessProgs /\ exc = "SerialException") =>
       /\ pc # "raised"
       /\ Len(records) > 0
       /\ records[Len(records)].status = "Error"

(* C6: when a comparison run over N samples reaches its summary, the       *)
(* report holds N records, one per sample index in increasing order.       *)
C6_OneRecordPerSample ==
    (prog \in ScoresHarness /\ pc = "summary") =>
       /\ Len(records) = test_samples
       /\ \A k \in 1..Len(records) : records[k].idx = k - 1

C7_Sum == match_count + mismatch_count + error_count

C7_Step ==
    prog \in CmpProgs =>
       /\ match_count' \in {match_count, match_count + 1}
       /\ mismatch_count' \in {mismatch_count, mismatch_count + 1}
       /\ error_count' \in {error_count, error_count + 1}
       /\ i' = i + 1 => C7_Sum' = C7_Sum + 1
       /\ i' = i => C7_Sum' = C7_Sum

(* C7: in run_comparison the three counters add up to the number of        *)
(* samples processed, each sample adds one to exactly one of them, none    *)
(* ever decreases, and at the summary they add up to the number of samples.*)
C7_CountersAddUp ==
    /\ [](prog \in CmpProgs => C7_Sum = i)
    /\ [](prog \in CmpProgs /\ pc = "summary" => C7_Sum = test_samples)
    /\ [][C7_Step]_vars

C7_Witness ==
    /\ prog = "regresja_cmp"
    /\ pc = "summary"
    /\ match_count = 1
    /\ error_count = 1

(* a run is over: a harness has processed every sample and stands at its   *)
(* summary, a sender has returned                                          *)
RunFinished ==
    IF prog \in HarnessProgs THEN pc = "summary" /\ i = test_samples
    ELSE pc = "done"

(* C8: every wait for the device ends: each read returns, the polling loop *)
(* of send_image stops once response_timeout has passed, and every run     *)
(* gets to its end, whether the device answers in full, in part or never.  *)
C8_BoundedWaits ==
    /\ <>RunFinished
    /\ []((pc \in {"await_digit", "await_scores", "poll"}) =>
            <>(pc \notin {"await_digit", "await_scores", "poll"}))
    /\ [](pc = "poll" => elapsed <= ResponseTimeoutMs + PollSleepMs)

(* a run in which the device never answered *)
C8_Witness ==
    /\ prog = "ukryte_cmp"
    /\ pc = "summary"
    /\ test_samples = MaxLiveSamples
    /\ error_count = test_samples
    /\ Len(dev_req) = test_samples

(* |a - b| = r and |a - b| <= r over the integers, for a, b, r in int32 *)
IsAbsDiff(a, b, r) ==
    /\ r >= 0
    /\ IF SameSign(a, b) THEN r = (IF a >= b THEN a - b ELSE b - a)
       ELSE IF a >= 0 THEN a - r = b ELSE b - r = a
AbsDiffAtMost(a, b, r) ==
    /\ r >= 0
    /\ IF SameSign(a, b) THEN (IF a >= b THEN a - b ELSE b - a) <= r
       ELSE IF a >= 0 THEN a - r <= b ELSE b - r <= a
IsMaxAbsDiff(ref, dev, r) ==
    /\ \E c \in 1..NumClasses : IsAbsDiff(ref[c], dev[c], r)
    /\ \A c \in 1..NumClasses : AbsDiffAtMost(ref[c], dev[c], r)

(* C9: for a full response the recorded status is Match exactly when the   *)
(* ten scores are equal, and on Mismatch the recorded max diff is the      *)
(* largest |reference - device| over the classes, as an integer.           *)
C9_StatusAndMaxDiff ==
    (pc = "loop" /\ Len(records) = 1 /\ fpga_scores # NoScores) =>
       /\ records[1].status = "Match" <=>
             \A c \in 1..NumClasses : python_scores[c] = fpga_scores[c]
       /\ records[1].status = "Mismatch" =>
             IsMaxAbsDiff(python_scores, fpga_scores, records[1].max_diff)

(* the upload routine has returned *)
UploadDone == pc = "wait" \/ (prog = "cnn_send" /\ pc = "done" /\ exc = "none")

(* C10: the bytes written by an upload are 0xBB 0x66, the 784 pixels as    *)
(* two's-complement bytes in index order, 0x66 0xBB: 788 bytes, whatever   *)
(* the chunking; the pixel is got back from its byte by reinterpretation.  *)
C10_UploadFrame ==
    UploadDone =>
       /\ txlog = ExpectedFrame(image)
       /\ Len(txlog) = 788
       /\ \A p \in 1..ImgSize : FromByte(txlog[2 + p]) = image[p]

C10_Witness ==
    /\ prog = "send_image"
    /\ pc = "wait"
    /\ image = Pattern(1)
    /\ \E p \in 1..ImgSize : image[p] < 0

(* the weight frame as the protocol table states it, from the files *)
ExpectedWeightFrame(files) ==
    <<170, 85>> \o files.conv_w \o files.conv_b \o files.dense_w
                \o files.dense_b \o <<85, 170>>
PayloadSize(files) ==
    Len(files.conv_w) + Len(files.conv_b) + Len(files.dense_w) + Len(files.dense_b)

(* C11: send_weights sends 0xAA 0x55, conv weights, conv biases, dense     *)
(* weights, dense biases, 0x55 0xAA; what the 64-byte chunks have written  *)
(* is always the start of that frame, and when the loop has ended it is    *)
(* the whole frame and bytes_sent = total_packet_size = payload size + 4.  *)
C11_WeightFrame ==
    /\ pc \in {"w_open", "w_send"} =>
          /\ all_data = ExpectedWeightFrame(arg)
          /\ total_packet_size = PayloadSize(arg) + 4
    /\ pc = "w_send" =>
          /\ txlog = Take(ExpectedWeightFrame(arg), Len(txlog))
          /\ bytes_sent = Len(txlog)
    /\ (pc = "done" /\ rc = 0) =>
          /\ txlog = ExpectedWeightFrame(arg)
          /\ bytes_sent = total_packet_size
          /\ bytes_sent = PayloadSize(arg) + 4

C11_Witness ==
    /\ pc = "done" /\ rc = 0
    /\ \A k \in 1..4 : Len(chunks[k]) > 0
    /\ Len(txlog) > 2 * ChunkSize
    /\ Len(txlog) % ChunkSize # 0

(* byte k (0 the lowest) of the two's-complement form of a 32-bit value *)
ByteOf(v, k) == (v \div (256 ^ k)) % 256

(* C12: both decoders of a 40-byte Scores response return, for class i,    *)
(* the value whose little-endian two's-complement bytes are bytes           *)
(* 4i..4i+3, in class order; so they return the same ten values.           *)
C12_DecodersAgree ==
    (pc = "return" /\ fn \in {"read_scores_loop", "unpack10i"}) =>
       /\ Len(out) = 10
       /\ \A c \in 0..9 :
             /\ out[c + 1] \in INT32_MIN..INT32_MAX
             /\ \A k \in 0..3 : ByteOf(out[c + 1], k) = arg[4 * c + k + 1]
       /\ out = unpack10i(arg)
       /\ out = read_scores_loop(arg)

C12_Witness ==
    /\ pc = "return" /\ fn = "read_scores_loop"
    /\ out[1] = INT32_MIN
    /\ out[10] = -1
    /\ out[2] # out[3]


(* C13: the prediction decoded from a 1-byte Digit response is the low     *)
(* nibble of the byte, whatever the high nibble, and is a class in 0..9.   *)
C13_DigitIsClassIndex ==
    (pc = "return" /\ fn = "low_nibble") =>
       /\ \E hn \in 0..15 : arg[1] = 16 * hn + out
       /\ out \in 0..9


(* C14: a value of width 8 or 32 written as two's-complement hex text and  *)
(* read back is the value itself, the most negative one included, and the  *)
(* text has exactly W/4 hex digits.                                        *)
C14_HexRoundTrip ==
    (fn = "mem_round_trip" /\ pc \in {"saved", "return"}) =>
       /\ Len(out[1]) = arg[1] \div 4
       /\ \A p \in 1..Len(out[1]) : \E d \in 1..16 : out[1][p] = HexChars[d]
       /\ pc = "return" => out[2] = arg[2]

C14_Witness ==
    /\ fn = "mem_round_trip" /\ pc = "return"
    /\ arg = <<32, INT32_MIN>>
    /\ out[1] = <<"8", "0", "0", "0", "0", "0", "0", "0">>
    /\ out[2] = INT32_MIN


(* some line that is not empty has another number of hex digits than n *)
WrongLength(lines, n) ==
    \E p \in 1..Len(lines) : lines[p] # <<>> /\ Len(lines[p]) # n

(* C15: a .mem file with a line whose digit count is not the one of the    *)
(* file's width (2 or 8), at whatever line, is not converted: no bytes are *)
(* produced from it.                                                       *)
C15_WrongLengthRejected ==
    (pc = "return" /\ fn = "convert_file"
        /\ WrongLength(arg, 2) /\ WrongLength(arg, 8))
    => (out.status # "converted" /\ out.data = <<>>)


(* the exact sum of the products, taken from the last entry to the first *)
RECURSIVE ExactDot(_, _, _)
ExactDot(x, w, k) == IF k = 0 THEN 0 ELSE x[k] * w[k] + ExactDot(x, w, k - 1)

(* r is s + b reduced modulo 2^32, told on the two 16-bit halves *)
Lo16(v) == v % 65536
Hi16(v) == (v \div 65536) % 65536
IsSumMod32(r, s, b) ==
    /\ Lo16(r) = (Lo16(s) + Lo16(b)) % 65536
    /\ Hi16(r) = (Hi16(s) + Hi16(b) + ((Lo16(s) + Lo16(b)) \div 65536)) % 65536

(* C16: under the wrap policy the score of a class is the exact sum of the *)
(* products plus the bias, reduced modulo 2^32 into the int32 range,       *)
(* whatever the order of the products; 2147483647 + 1 gives -2147483648.   *)
C16_WrapIsSumMod32 ==
    (pc = "return" /\ fn = "score_wrap") =>
       /\ out \in INT32_MIN..INT32_MAX
       /\ IsSumMod32(out, ExactDot(arg[1], arg[2], Len(arg[1])), arg[3])
       /\ (arg[3] = INT32_MAX /\ ExactDot(arg[1], arg[2], Len(arg[1])) = 1)
             => out = INT32_MIN

C16_Witness ==
    /\ pc = "return" /\ fn = "score_wrap"
    /\ arg[3] = INT32_MAX
    /\ ExactDot(arg[1], arg[2], Len(arg[1])) = 1
    /\ out = INT32_MIN


(* C17: under the saturating policy the value before the shift is          *)
(* clamp32(clamp32(dot product) + bias): the exact dot product is clamped  *)
(* to int32 before the bias is added, and the sum is clamped again.        *)
C17_ClampBeforeBias ==
    (pc = "return" /\ fn = "pre_shift_saturating") =>
       LET dot == dot64(Wide(0), arg[1], arg[2], 1) IN
       out = clip32(WideAdd(Wide(clip32(dot)), Wide(arg[3])))


(* C18: the value after the shift step is floor(a / 2^s), the one r with   *)
(* 0 <= a - r * 2^s < 2^s; -7 by 1 gives -4 and 7 by 1 gives 3.            *)
C18_ShiftIsFloor ==
    (pc = "return" /\ fn = "arshift") =>
       /\ arg[1] - out * (2 ^ arg[2]) \in 0..((2 ^ arg[2]) - 1)
       /\ arg = <<-7, 1>> => out = -4
       /\ arg = <<7, 1>> => out = 3

C18_Witness ==
    /\ pc = "return" /\ fn = "arshift"
    /\ arg = <<-7, 1>>
    /\ out = -4


(* what the output stage is to make of a shifted value *)
ExpectedActivation(v) ==
    CASE v = -1 -> 0 [] v = 0 -> 0 [] v = 127 -> 127 [] v = 128 -> 127
      [] v < -1 -> 0 [] v > 128 -> 127 [] OTHER -> v

C19_Step ==
    /\ (fn = "conv_pool" /\ pc = "call" /\ pc' = "conv_done") =>
          \A r \in 1..Len(arg) : \A c \in 1..Len(arg[r]) :
             /\ out'[r][c] \in 0..127
             /\ out'[r][c] = ExpectedActivation(arg[r][c])
    /\ (fn = "conv_pool" /\ pc = "conv_done" /\ pc' = "return") =>
          /\ Len(out') = Len(out) \div 2
          /\ \A r \in 1..Len(out') :
                /\ Len(out'[r]) = Len(out[1]) \div 2
                /\ \A c \in 1..Len(out'[r]) :
                      LET window == {out[2 * r - 1][2 * c - 1], out[2 * r - 1][2 * c],
                                     out[2 * r][2 * c - 1], out[2 * r][2 * c]}
                      IN /\ out'[r][c] \in window
                         /\ \A v \in window : v <= out'[r][c]
                         /\ out'[r][c] \in 0..127

(* C19: every Conv2D output element is in [0,127] (-1, 0, 127, 128 after   *)
(* the shift give 0, 0, 127, 127); every 2x2 MaxPool output is the maximum *)
(* of its own window and so in [0,127] too.                                *)
C19_ActivationsInRange == [][C19_Step]_vars

C19_Witness ==
    /\ fn = "conv_pool" /\ pc = "return"
    /\ \E r \in 1..Len(arg) : \E c \in 1..Len(arg[r]) : arg[r][c] = 128
    /\ \E r \in 1..Len(arg) : \E c \in 1..Len(arg[r]) : arg[r][c] = -1
    /\ Len(arg) = 3
    /\ out[1][1] = 127


(* p is the smallest index (from 0) at which s holds its maximum *)
IsFirstMax(s, p) ==
    /\ p \in 0..(Len(s) - 1)
    /\ \A j \in 1..Len(s) : s[j] <= s[p + 1]
    /\ \A j \in 1..p : s[j] < s[p + 1]

(* C20: the prediction is the smallest index holding the maximum score,    *)
(* ties included; with all weights 0 the scores are the biases for any     *)
(* input: biases [5,3,3,1,1,1,1,1,1,1] give these scores and prediction 0. *)
C20_PredictionIsFirstMax ==
    /\ (pc = "return" /\ fn = "fpga_inference_with_overflow") =>
          /\ IsFirstMax(out.scores, out.predicted_digit)
          /\ arg[2] = ZeroWeights => out.scores = arg[3]
          /\ (arg[2] = ZeroWeights /\ arg[3] = <<5, 3, 3, 1, 1, 1, 1, 1, 1, 1>>) =>
                /\ out.scores = <<5, 3, 3, 1, 1, 1, 1, 1, 1, 1>>
                /\ out.predicted_digit = 0
    /\ (pc = "return" /\ fn = "display_scores") => IsFirstMax(arg, out)

C20_Witness ==
    /\ pc = "return" /\ fn = "fpga_inference_with_overflow"
    /\ arg[2] = ZeroWeights
    /\ arg[1][1] = -128
    /\ out.scores[3] = INT32_MAX /\ out.scores[6] = INT32_MAX
    /\ out.predicted_digit = 2



(* C21: a call leaves the image and the model as they were, and two calls  *)
(* of a session with the same image return the same scores, whatever calls *)
(* were made between them                                                  *)
C21_CallKeepsArrays ==
    (pc = "call" /\ pc' = "idle") => arg' = arg
C21_SameScores ==
    \A a \in 1..Len(out) : \A b \in 1..Len(out) :
        out[a].image = out[b].image => out[a].scores = out[b].scores
ShapesMatch(files) ==
    \A j \in 1..6 : /\ files[j].exists
                    /\ Len(files[j].data) = DeclaredRows[j] * DeclaredCols[j]
C22_BadBlobRejected ==
    (fn = "load_quantized_model" /\ ~ShapesMatch(arg[2]))
        => (pc # "loaded" /\ (pc = "return" => out.status \in {"exit", "ValueError"}))


(* C23: after a user interrupt the four fixture files are aligned: for     *)
(* some k they hold the lines of k whole samples                           *)
Aligned(k) ==
    /\ Len(out.f_pixels) = MaxTerms * k
    /\ Len(out.f_scores) = NumClasses * k
    /\ Len(out.f_meta) = k
    /\ Len(out.f_labels) = k
C23_InterruptKeepsAligned ==
    (prog = "generate" /\ pc = "interrupted") => \E k \in 0..MaxVectors : Aligned(k)


(* C24: when k samples have been generated the pixel, score, prediction    *)
(* and label files hold MaxTerms * k, 10 * k, k and k lines (the image has *)
(* MaxTerms pixels here, 784 in the scripts); every line written, in file  *)
(* order, has 2, 8, 1 and 1 hex digits and is the two's-complement text of *)
(* the pixel consumed, the score and prediction produced, and the label    *)
Produced(s) == gen_inference(fn, arg[1][s].img, arg[2])
IsLineOf(line, n, W, val) == Len(line) = n /\ load_mem_value(line, W) = val
OnlyFile(f) ==
    \A g \in {"f_pixels", "f_scores", "f_meta", "f_labels"} \ {f} : out'[g] = out[g]
C24_Step ==
    /\ pc = "g_head" /\ pc' = "g_pixels" =>
          /\ out'.scores = Produced(i + 1).scores
          /\ out'.pred = Produced(i + 1).predicted_digit
          /\ image' = arg[1][i + 1].img
          /\ OnlyFile("none")
    /\ pc = "g_pixels" /\ pc' # "interrupted" =>
          /\ \E line \in {out'.f_pixels[Len(out'.f_pixels)]} :
                /\ out'.f_pixels = Append(out.f_pixels, line)
                /\ IsLineOf(line, 2, 8, image[Len(out.f_pixels) - MaxTerms * i + 1])
          /\ OnlyFile("f_pixels")
    /\ pc = "g_scores" /\ pc' # "interrupted" =>
          /\ \E line \in {out'.f_scores[Len(out'.f_scores)]} :
                /\ out'.f_scores = Append(out.f_scores, line)
                /\ IsLineOf(line, 8, 32, out.scores[Len(out.f_scores) - NumClasses * i + 1])
          /\ OnlyFile("f_scores")
    /\ pc = "g_meta" /\ pc' # "interrupted" =>
          /\ \E line \in {out'.f_meta[Len(out'.f_meta)]} :
                /\ out'.f_meta = Append(out.f_meta, line)
                /\ Len(line) = 1 /\ HexValue(line[1]) = out.pred
          /\ OnlyFile("f_meta")
    /\ pc = "g_label" /\ pc' # "interrupted" =>
          /\ \E line \in {out'.f_labels[Len(out'.f_labels)]} :
                /\ out'.f_labels = Append(out.f_labels, line)
                /\ Len(line) = 1 /\ HexValue(line[1]) = arg[1][i + 1].label
          /\ OnlyFile("f_labels")
    /\ pc \in {"g_pixels", "g_scores", "g_meta", "g_label"} =>
          /\ out'.scores = out.scores /\ out'.pred = out.pred
          /\ image' = image /\ arg' = arg
    /\ pc' \in {"g_head", "g_done"} => Aligned(i)'
C24_FixtureFiles == [][prog = "generate" => C24_Step]_vars

(* all samples generated, with a negative pixel and scores at both ends of *)
(* the int32 range among the lines                                         *)
C24_Witness ==
    /\ prog = "generate" /\ pc = "g_done" /\ i = MaxVectors
    /\ out.f_pixels[1] = <<"f", "f">>
    /\ out.f_pixels[MaxTerms + 1] = <<"8", "0">>
    /\ \E j \in 1..Len(out.f_scores) :
          out.f_scores[j] = <<"8", "0", "0", "0", "0", "0", "0", "0">>
    /\ \E j \in 1..Len(out.f_scores) :
          out.f_scores[j] = <<"7", "f", "f", "f", "f", "f", "f", "f">>
    /\ out.f_labels = <<<<"9">>, <<"0">>>>


(* C25: every output of layer 1 and of layer 2 of the three-Dense engines, *)
(* after shift and ReLU, is in 0..127                                      *)
C25_HiddenActivationsAre8Bit ==
    (pc = "return" /\ fn \in {"compare_fpga_inference_simulation",
                               "generate_fpga_inference_simulation"})
        => \A layer \in 1..2 : \A n \in 1..MaxHidden :
               out.layer_outputs[layer][n] \in 0..127


(* C26: a comparison run whose loop over the samples is over emits its     *)
(* summary: no run ends in the summary with an exception, for any number   *)
(* of samples                                                              *)
C26_SummaryEmitted ==
    (prog \in HarnessProgs /\ i >= test_samples /\ pc = "raised")
        => exc # "ZeroDivisionError"


(* C27: a 40-byte Scores response accepted for sample k holds only bytes   *)
(* the device sent in reply to the 0xCD request of sample k                *)
C27_ResponseIsForThisRequest ==
    (prog \in HarnessProgs /\ pc = "classify" /\ Len(resp) = ScoresLen)
        => \A q \in 1..ScoresLen : resp[q].req = i


(* C28: the fpga_inference_simulation of the comparison harness and the    *)
(* one of the fixture generator return the same prediction, scores and     *)
(* layer outputs on every image and model                                  *)
C28_CopiesAgree ==
    /\ (pc = "return" /\ fn = "compare_fpga_inference_simulation")
          => out = generate_fpga_inference_simulation(arg[1], arg[2])
    /\ (pc = "return" /\ fn = "generate_fpga_inference_simulation")
          => out = compare_fpga_inference_simulation(arg[1], arg[2])

(* a call where layer 1 wraps (bias at the top of the range, positive dot  *)
(* product, output 0) and a score is clipped                               *)
C28_Witness ==
    /\ pc = "return" /\ fn = "generate_fpga_inference_simulation"
    /\ \E n \in 1..MaxHidden :
          /\ arg[2][2][n] = INT32_MAX
          /\ ExactDot(arg[1], arg[2][1][n], MaxTerms) > 0
          /\ out.layer_outputs[1][n] = 0
    /\ \E c \in 1..NumClasses : out.scores[c] \in {INT32_MIN, INT32_MAX}


(* C29: in the multiply-accumulate loop of fpga_inference_with_overflow    *)
(* the accumulator stays within n * 128 * 128 for n pixels, 12845056 for   *)
(* the 784 of an image, so no step wraps, the accumulator is the exact sum *)
(* and the overflow flag is False whatever the biases are                  *)
C29_Step ==
    /\ ImgSize * 128 * 128 = 12845056
    /\ (fn = "scan_class" /\ pc = "mac") =>
          LET k == out.pixel_idx + 1
              exact == out.accumulator + arg[2][k] * arg[1][k]
          IN /\ out'.accumulator = exact
             /\ Abs32(exact) <= k * 128 * 128
             /\ Abs32(exact) <= 12845056
             /\ ~out'.overflow_detected
    /\ (fn = "fpga_inference_with_overflow" /\ pc' = "return") =>
          ~out'.overflow_detected
C29_NoOverflowInLoop == [][C29_Step]_vars

(* the largest accumulator: 784 products of -128 by -128 *)
C29_Witness ==
    /\ pc = "return" /\ fn = "scan_class"
    /\ Len(arg[1]) = ImgSize
    /\ out.pixel_idx = ImgSize
    /\ out.accumulator = 12845056


(* C30: whenever the exact value of dot product + bias is in the int32     *)
(* range the wrap policy and the saturating policy return it, both, also   *)
(* when a partial sum is outside the range; they differ only when the      *)
(* exact value is outside                                                  *)
(* the exact sum s = 8 * q + r, 0 <= r < 8, kept in eighths so that it     *)
(* stays a small number                                                    *)
RECURSIVE EighthsQ(_, _, _)
EighthsQ(x, w, k) == IF k = 0 THEN 0 ELSE ((x[k] * w[k]) \div 8) + EighthsQ(x, w, k - 1)
RECURSIVE EighthsR(_, _, _)
EighthsR(x, w, k) == IF k = 0 THEN 0 ELSE ((x[k] * w[k]) % 8) + EighthsR(x, w, k - 1)
ExactEighths(x, w, b) ==
    LET q == EighthsQ(x, w, Len(x)) + (b \div 8)
        r == EighthsR(x, w, Len(x)) + (b % 8)
    IN [q |-> q + (r \div 8), r |-> r % 8]
InInt32(e) == e.q >= -268435456 /\ e.q <= 268435455
C30_PoliciesAgreeInRange ==
    (pc = "return" /\ fn = "policies") =>
        LET e == ExactEighths(arg[1], arg[2], arg[3]) IN
        /\ InInt32(e) => /\ out.wrap = 8 * e.q + e.r
                         /\ out.saturate = 8 * e.q + e.r
        /\ out.wrap # out.saturate => ~InInt32(e)

(* the dot product alone is above the range, the bias brings the sum back  *)
C30_Witness ==
    /\ pc = "return" /\ fn = "policies"
    /\ ~InInt32(ExactEighths(arg[1], arg[2], 0))
    /\ InInt32(ExactEighths(arg[1], arg[2], arg[3]))
    /\ out.wrap = out.saturate
    /\ out.wrap > 0

====
